---- MODULE Spec2Model ----
(***************************************************************************)
(* A model of the BackupPeer peer core.                                    *)
(*                                                                         *)
(*  - Transfer pipeline (class FileTransfer, src/client/lib/               *)
(*    verification.js 521-1100, with the chunk-state table of              *)
(*    src/client/lib/database.js 648-682): one sender process, one         *)
(*    receiver process and the two directions of the peer channel.         *)
(*  - Allocation ledger (class StorageAllocation, src/unnamed/part_005).   *)
(*  - Rate limiter (class RateLimiter, src/unnamed/part_006) in front of   *)
(*    the inbound dispatcher of the peer channel (P2PConnection,           *)
(*    src/client/lib/p2p.js 516-561), with a clock in milliseconds.        *)
(*  - Session (class P2PConnection, src/client/lib/p2p.js 12-968):         *)
(*    channel establishment, identity exchange, keepalive, reconnection    *)
(*    and close.                                                           *)
(*  - Reputation engine (class ReputationSystem,                           *)
(*    src/client/lib/reputation.js), with scores as exact fractions.       *)
(*  - Proof of storage (class StorageVerification,                         *)
(*    src/client/lib/verification.js 5-433): challenges, proofs, their     *)
(*    expiry, and the exchange of storage commitments.                     *)
(*  - Identity verification (BackupCrypto.verifyPeerIdHash,                *)
(*    src/client/lib/p2p.js 1094-1156), and the age of the identity an     *)
(*    honest peer sends in the handshake.                                  *)
(*  - Encrypted store (class DatabaseEncryption, src/unnamed/part_004,     *)
(*    and the peer tables of src/client/lib/database.js).                  *)
(*  - Shared secrets of BackupCrypto (src/client/lib/p2p.js 1081-1091,     *)
(*    1265-1302) over the handshaken session.                              *)
(*  - Signaling broker (src/broker/index.js 97-255): one hosted slot and   *)
(*    its requesters.                                                      *)
(*                                                                         *)
(* Specifications: Spec, SpecUntrusted, SpecResume, SpecRetry (transfer    *)
(* pipeline), SpecLedger (ledger), SpecLimiter, SpecLimiterKey (dispatcher *)
(* under a flooding peer), SpecHandshake, SpecFrames (identity exchange    *)
(* and routing), SpecSession (session life cycle), SpecReputation,         *)
(* SpecVerify, SpecVerifyRace, SpecCommit, SpecIdentity, SpecHandshakeAge, *)
(* SpecStore, SpecSecrets, SpecBroker.                                     *)
(***************************************************************************)
EXTENDS Integers, Sequences, FiniteSets, TLC

(***************************************************************************)
(* Bounds of the model.                                                    *)
(***************************************************************************)
\* number of chunks n of the source file (fileSize / chunkSize, rounded up)
FileChunks == 3
\* how many in-flight messages the untrusted remote side may alter
MaxFaults == 1
\* how many times the sender process is killed and restarted
MaxCrashes == 1
\* calls of sendFile, resumeTransfer and retryFailedChunks for the backup
MaxTransferCalls == 4
\* writes to the encrypted store and changes of its master key
MaxStoreOps == 3
\* host-slot and connect-to-peer events the broker receives
MaxBrokerEvents == 4
\* the wall clock of the identity handshake: its step (ms) and number of steps
ClockStep == 1200000
MaxTicks == 7
\* largest byte amount a single ledger call is made with
MaxBytes == 2
\* cap on each counter of the ledger, global or per peer
MaxTotal == 3
\* last instant (ms) of the clock the limiter is observed at
MaxClock == 302000
\* how many messages the remote peer sends in one run of the session model
MaxSessionMsgs == 2
\* how many times the peer channel is established in one run
MaxConnects == 2
\* how many keepalive intervals are counted without a pong
MaxMissed == 3
\* how many calls are made to the reputation engine in one run
MaxRepEvents == 4
\* how many storage challenges are sent in one run
MaxChallenges == 2
\* number of files of the backup under challenge
BackupFiles == 10
\* the clock (ms) at which signed identities are verified
VerifyTime == 4000000

VARIABLES
  \* ---- sender process (FileTransfer.sendFile and its stream handlers)
  srcFile,             \* the file on the sender's disk: index -> chunk content
  chunkStates,         \* table transfer_chunk_states of the one backup
  sndActiveTransfers,  \* this.activeTransfers of the sender
  stream,              \* fs.createReadStream of sendFile and its closure
  chunkIndex,          \* `let chunkIndex` of sendFile, shared by the handlers
  pendingHandlers,     \* 'data' handlers suspended in await saveTransferChunkState
  \* ---- peer channel
  toReceiver,          \* messages sent by the sender, not yet dispatched
  toSender,            \* messages sent by the receiver, not yet dispatched
  \* ---- receiver process (FileTransfer.handle*)
  rcvActiveTransfers,  \* this.activeTransfers of the receiver
  receivedChunks,      \* this.receivedChunks of the receiver
  receivedTree,        \* files under ./received
  \* ---- observations (what was put on the wire, what each handler answered)
  wire,                \* messages of the current sendFile call, in send order
  ackedChunks,         \* chunk indices whose chunk_ack the sender has processed
  lastChunkRx,         \* the last file_chunk handled and its outcome
  lastCompleteRx,      \* the last file_complete handled and its outcome
  resumeLog,           \* what resumeTransfer saw and did
  faults,
  crashes,
  \* ---- allocation ledger (this.allocation of StorageAllocation)
  maxStorageOffered,
  storageOffered,
  storageUsed,
  allocations,         \* peerId -> [offered, used]
  lastAccept,          \* the last canAcceptBackup call and its result
  \* ---- rate limiter (RateLimiter) and the clock
  now,                 \* Date.now(), in ms
  requests,            \* this.requests: key -> timestamps
  bursts,              \* this.bursts: peerId -> timestamps
  bannedPeers,         \* this.bannedPeers: peerId -> banUntil
  unbanTimers,         \* setTimeout callbacks of banPeer, not yet run
  banLog,              \* observation: peerId -> latest instant a ban lasts to
  \* ---- session (P2PConnection)
  systems,             \* initializeVerificationSystems has run
  socket,              \* this.socket is connected to the signaling server
  channel,             \* this.peer: "none", "connecting", "open", "broken", "closed"
  connected,           \* this.connected
  currentPeerId,       \* this.currentPeerId
  verifiedPeers,       \* keys of this.verifiedPeers
  pendingIdentity,     \* handlePeerIdentityMessage calls suspended in an await
  verification,        \* this.verification is set
  reconnectAttempts,   \* this.reconnectAttempts
  reconnectTimers,     \* setTimeout callbacks of handleConnectionDrop, not yet run
  dropsAwaiting,       \* handleConnectionDrop calls suspended in their await
  connectAwaiting,     \* the 'connect' handler is suspended in its awaits
  pingInterval,        \* this.pingInterval is set
  closeState,          \* close(): "no", "closing" (in its await), "closed"
  reputation,          \* ReputationSystem.peers: peerId -> reputation record
  \* ---- observations of the session
  lastData,            \* the last inbound message and where it went
  lastLoss,            \* the last loss of the channel and what the session did
  missedIntervals,     \* keepalive intervals elapsed since the last pong
  scheduledDelays,     \* delays of the reconnect attempts since the last 'connect'
  connectionFailed,    \* 'connection_failed' was emitted by handleConnectionDrop
  afterClose,          \* what ran after close() had completed
  floodType,           \* the message type and the pace of the flooding peer
  sessionMsgs,
  establishments,
  \* ---- reputation engine (ReputationSystem; its map is the variable reputation)
  repLog,              \* kinds of the events recorded so far
  repEvents,           \* number of calls made to the engine
  lastQuery,           \* the last isPeerAcceptable call and its answer
  \* ---- proof of storage (StorageVerification)
  custodianBackup,     \* the custodian's copy: "intact", "corrupt" or "missing"
  nextChallenge,       \* number of challenges sent
  activeVerifications, \* challenge id -> [challenge, status]
  challengeTimers,     \* challenges whose expiry timeout is still set
  toCustodian,         \* storage_challenge messages in flight
  toChallenger,        \* storage_proof messages in flight
  challengeHistory,    \* this.challengeHistory of the peer
  lastProof,           \* the last handleProof call and its verdict
  \* ---- commitment exchange
  outbox,              \* types of the messages sent on the current channel
  commitmentListener,  \* exchangeCommitments listens for the peer's commitment
  peerCommitments,     \* this.peerCommitments: the commitments stored
  lastCommitment,      \* the last storage_commitment received and its handling
  \* ---- identity verification (BackupCrypto.verifyPeerIdHash)
  lastIdentity,        \* the last signed identity verified and the verdict
  \* ---- sending, resuming and retrying the chunks of a backup
  transmitted,         \* chunk index -> number of file_chunk messages sent for it
  awaitingAck,         \* file_chunk messages the receiver has not answered yet
  lastSend,            \* the last send, resume or retry call and what it sent
  lastAck,             \* the last chunk_ack handled and the chunk's state after it
  transferCalls,       \* number of send, resume and retry calls made
  \* ---- encrypted store (BackupDatabase, DatabaseEncryption)
  masterKey,           \* this.masterKey of DatabaseEncryption
  peersTable,          \* table peers: peer_id -> row
  cachedPeerConnections,\* table cached_peer_connections: peer_id_hash -> row
  lastRead,            \* the last read of a table and what it returned
  storeOps,            \* number of writes and key changes made
  \* ---- shared secrets (BackupCrypto)
  sharedSecrets,       \* keys of this.sharedSecrets of BackupCrypto
  lastCrypt,           \* the last encrypt or decrypt of a chunk and its key lookup
  \* ---- signaling broker
  hostedSlots,         \* hostedSlots of the broker: peer id -> slot
  peerConnections,     \* peerConnections of the broker, by requester
  connectionRequests,  \* connection-request events on their way to the host
  acceptances,         \* accept-connection events on their way to the broker
  peerMatched,         \* requesters sent peer-matched since the slot was hosted
  brokerEvents,        \* number of host-slot and connect-to-peer events
  \* ---- identity handshake
  wallClock,           \* Date.now() of the two peers of the identity handshake
  peerIdentity,        \* this.peerIdentity of the sender
  slotExpires,         \* expires of the sender's hosted slot
  lastHandshake        \* the latest identity verification by the receiver

transferVars ==
  << srcFile, chunkStates, sndActiveTransfers, stream, chunkIndex, pendingHandlers,
     toReceiver, toSender, rcvActiveTransfers, receivedChunks, receivedTree,
     wire, ackedChunks, lastChunkRx, lastCompleteRx, resumeLog, faults, crashes >>

ledgerVars ==
  << maxStorageOffered, storageOffered, storageUsed, allocations, lastAccept >>

limiterVars ==
  << now, requests, bursts, bannedPeers, unbanTimers, banLog >>

sessionVars ==
  << systems, socket, channel, connected, currentPeerId, verifiedPeers,
     pendingIdentity, verification, reconnectAttempts, reconnectTimers,
     dropsAwaiting, connectAwaiting, pingInterval, closeState, reputation,
     lastData, lastLoss, missedIntervals, scheduledDelays,
     connectionFailed, afterClose, floodType, sessionMsgs, establishments >>

\* the session without the reputation map
sessionRest ==
  << systems, socket, channel, connected, currentPeerId, verifiedPeers,
     pendingIdentity, verification, reconnectAttempts, reconnectTimers,
     dropsAwaiting, connectAwaiting, pingInterval, closeState,
     lastData, lastLoss, missedIntervals, scheduledDelays,
     connectionFailed, afterClose, floodType, sessionMsgs, establishments >>

repVars == << repLog, repEvents, lastQuery >>

verifyVars ==
  << custodianBackup, nextChallenge, activeVerifications, challengeTimers,
     toCustodian, toChallenger, challengeHistory, lastProof >>

commitVars == << outbox, commitmentListener, peerCommitments, lastCommitment >>

identityVars == << lastIdentity >>

retryVars == << transmitted, awaitingAck, lastSend, lastAck, transferCalls >>

storeVars == << masterKey, peersTable, cachedPeerConnections, lastRead, storeOps >>

cryptoVars == << sharedSecrets, lastCrypt >>

brokerVars == << hostedSlots, peerConnections, connectionRequests, acceptances, peerMatched, brokerEvents >>

handshakeVars == << wallClock, peerIdentity, slotExpires, lastHandshake >>

extraVars == << storeVars, cryptoVars, brokerVars, handshakeVars >>

coreEngines == << repVars, verifyVars, commitVars, identityVars, extraVars >>

engineVars == << coreEngines, retryVars >>

\* what an event of the reputation engine leaves alone, besides its own state
exceptReputation ==
  << verifyVars, commitVars, identityVars, retryVars, extraVars, limiterVars, sessionRest, transferVars, ledgerVars >>

\* what a step of the storage verification leaves alone, besides its own
\* state and the reputation map
exceptVerify ==
  << repVars, commitVars, identityVars, retryVars, extraVars, limiterVars, sessionRest, transferVars, ledgerVars >>

\* what a call of exchangeCommitments leaves alone, besides its own state
exceptCommit ==
  << repVars, verifyVars, identityVars, retryVars, extraVars, limiterVars, sessionRest, transferVars, ledgerVars >>

netVars == << limiterVars, sessionVars, engineVars >>

vars == << transferVars, ledgerVars, netVars >>

(***************************************************************************)
(* Crypto: SHA-256 and the authenticated box of BackupCrypto.              *)
(***************************************************************************)
\* SHA-256 over a byte string, here a sequence of content units >= 1:
\* an injective (collision-free) encoding, length included.
RECURSIVE Sha256(_)
Sha256(bytes) ==
  IF bytes = << >> THEN 1
  ELSE Sha256(SubSeq(bytes, 1, Len(bytes) - 1)) * 8 + bytes[Len(bytes)] + 1

hashData(data) == Sha256(data)

\* the secret both peers derived for each other; 0 is any other key
SharedSecret == 1

NoCipher == [key |-> 0, pt |-> << >>, tag |-> FALSE]

\* crypto_box_easy_afternm: nonce + ciphertext + MAC under the shared secret
encrypt(data) == [key |-> SharedSecret, pt |-> data, tag |-> TRUE]

\* crypto_box_open_easy_afternm succeeds only on an untouched box under our secret
decryptOk(box) == box.tag /\ box.key = SharedSecret

decrypt(box) == box.pt

toBase64(box) == [b64 |-> box]

fromBase64(text) == text.b64

(***************************************************************************)
(* Messages of the transfer pipeline.                                      *)
(***************************************************************************)
NoBackup == "none"
BackupId == "b1"
FileName == "file.bin"

Msg(type, tid, idx, data, hash, total, status) ==
  [type |-> type, transferId |-> tid, chunkIndex |-> idx, encryptedData |-> data,
   hash |-> hash, totalChunks |-> total, status |-> status]

FileStartMsg(tid, total, fileHash, resumeFromChunk) ==
  Msg("file_start", tid, resumeFromChunk, toBase64(NoCipher), fileHash, total, "")

FileChunkMsg(tid, idx, data, chunkHash) ==
  Msg("file_chunk", tid, idx, toBase64(encrypt(data)), chunkHash, 0, "")

FileCompleteMsg(tid, total, fileHash) ==
  Msg("file_complete", tid, 0, toBase64(NoCipher), fileHash, total, "")

AckMsg(type, tid, idx, status) ==
  Msg(type, tid, idx, toBase64(NoCipher), 0, 0, status)

ChunkIndices == 0 .. (FileChunks - 1)

\* the bytes of the file, chunk after chunk
FileBytes(file) == [i \in 1 .. FileChunks |-> file[i - 1]]

hashFile(file) == Sha256(FileBytes(file))

(***************************************************************************)
(* The chunk-state table (database.js).                                    *)
(***************************************************************************)
\* INSERT OR REPLACE ... attempts = COALESCE(old attempts, 0) + 1
saveTransferChunkState(table, idx, chunkHash, state) ==
  [i \in DOMAIN table \cup {idx} |->
     IF i = idx
     THEN [chunk_hash |-> chunkHash, transfer_state |-> state,
           attempts |-> (IF idx \in DOMAIN table THEN table[idx].attempts ELSE 0) + 1,
           error_message |-> ""]
     ELSE table[i]]

\* UPDATE ... WHERE backup_id = ? AND chunk_index = ?  (no row: no effect)
updateChunkState(table, idx, state, errorMessage) ==
  IF idx \in DOMAIN table
  THEN [table EXCEPT ![idx] = [@ EXCEPT !.transfer_state = state,
                                         !.error_message = errorMessage]]
  ELSE table

RECURSIVE OrderByIndex(_)
OrderByIndex(S) ==
  IF S = {} THEN << >>
  ELSE LET m == CHOOSE x \in S : \A y \in S : x <= y
       IN << m >> \o OrderByIndex(S \ {m})

\* transfer_state NOT IN ('completed', 'verified') ORDER BY chunk_index
getIncompleteChunks(table) ==
  OrderByIndex({i \in DOMAIN table :
                  table[i].transfer_state \notin {"completed", "verified"}})

(***************************************************************************)
(* Sender: sendFile.                                                       *)
(***************************************************************************)
NoStream == [open |-> FALSE, transferId |-> 0, backupId |-> NoBackup, pos |-> 0,
             fileHash |-> 0]

\* The chunk sendFile starts from: the first chunk the table reports incomplete
\* for the backup, 0 for a send without backup id or without incomplete rows.
ResumeFromChunk(backupId) ==
  IF backupId = NoBackup \/ getIncompleteChunks(chunkStates) = << >>
  THEN 0
  ELSE getIncompleteChunks(chunkStates)[1]

\* sendFile up to the creation of the read stream: file_start is sent, the
\* transfer is tracked, the stream is opened at resumeFromChunk * chunkSize.
StartSendFile(tid, backupId) ==
  LET resumeFromChunk == ResumeFromChunk(backupId)
      metadata == FileStartMsg(tid, FileChunks, hashFile(srcFile), resumeFromChunk)
  IN /\ toReceiver' = Append(toReceiver, metadata)
     /\ wire' = << metadata >>
     /\ sndActiveTransfers' =
          [t \in DOMAIN sndActiveTransfers \cup {tid} |->
             IF t = tid
             THEN [totalChunks |-> FileChunks, sentChunks |-> resumeFromChunk,
                   status |-> "sending", backupId |-> backupId]
             ELSE sndActiveTransfers[t]]
     /\ stream' = [open |-> TRUE, transferId |-> tid, backupId |-> backupId,
                   pos |-> resumeFromChunk, fileHash |-> hashFile(srcFile)]
     /\ chunkIndex' = resumeFromChunk
     /\ ackedChunks' = {}

\* A first sendFile call, with or without a backup id.
SendFile ==
  /\ crashes = 0
  /\ DOMAIN sndActiveTransfers = {}
  /\ \E backupId \in {NoBackup, BackupId} : StartSendFile(1, backupId)
  /\ UNCHANGED << srcFile, chunkStates, pendingHandlers, toSender, rcvActiveTransfers,
                  receivedChunks, receivedTree, lastChunkRx, lastCompleteRx,
                  resumeLog, faults, crashes, ledgerVars, netVars >>

\* The tail of a 'data' handler: encrypt, send file_chunk under the current
\* value of chunkIndex, count it, advance chunkIndex.
SendChunk(tid, chunkData, chunkHash) ==
  LET chunkMessage == FileChunkMsg(tid, chunkIndex, chunkData, chunkHash)
  IN /\ toReceiver' = Append(toReceiver, chunkMessage)
     /\ wire' = Append(wire, chunkMessage)
     /\ sndActiveTransfers' =
          [sndActiveTransfers EXCEPT ![tid].sentChunks = @ + 1]
     /\ chunkIndex' = chunkIndex + 1

\* fileStream 'data': the stream hands the next chunk to a new handler run.
\* Without backup id the handler runs to its end; with one it stores the
\* chunk state and is suspended in the await until the statement completes.
StreamData ==
  /\ stream.open
  /\ stream.pos < FileChunks
  /\ LET chunkData == << srcFile[stream.pos] >>
         chunkHash == hashData(chunkData)
     IN \/ /\ stream.backupId = NoBackup
           /\ SendChunk(stream.transferId, chunkData, chunkHash)
           /\ UNCHANGED << chunkStates, pendingHandlers >>
        \/ /\ stream.backupId # NoBackup
           /\ chunkStates' = saveTransferChunkState(chunkStates, chunkIndex, chunkHash,
                                                    "transferring")
           /\ pendingHandlers' = pendingHandlers \cup
                {[pos |-> stream.pos, transferId |-> stream.transferId,
                  chunkData |-> chunkData, chunkHash |-> chunkHash]}
           /\ UNCHANGED << toReceiver, wire, sndActiveTransfers, chunkIndex >>
  /\ stream' = [stream EXCEPT !.pos = @ + 1]
  /\ UNCHANGED << srcFile, toSender, rcvActiveTransfers, receivedChunks, receivedTree,
                  ackedChunks, lastChunkRx, lastCompleteRx, resumeLog, faults,
                  crashes, ledgerVars, netVars >>

\* A suspended 'data' handler continues after its await.
HandlerResume ==
  /\ \E h \in pendingHandlers :
       /\ SendChunk(h.transferId, h.chunkData, h.chunkHash)
       /\ pendingHandlers' = pendingHandlers \ {h}
  /\ UNCHANGED << srcFile, chunkStates, stream, toSender, rcvActiveTransfers,
                  receivedChunks, receivedTree, ackedChunks, lastChunkRx,
                  lastCompleteRx, resumeLog, faults, crashes, ledgerVars, netVars >>

\* The read stream emits 'end' once it has emitted its last 'data'.
StreamAtEnd_Mut == stream.pos >= FileChunks - 1

StreamAtEnd == stream.pos = FileChunks

\* fileStream 'end': file_complete is sent and the transfer marked completed.
StreamEnd ==
  /\ stream.open
  /\ StreamAtEnd
  /\ LET completionMessage ==
           FileCompleteMsg(stream.transferId, FileChunks, stream.fileHash)
     IN /\ toReceiver' = Append(toReceiver, completionMessage)
        /\ wire' = Append(wire, completionMessage)
  /\ sndActiveTransfers' =
       [sndActiveTransfers EXCEPT ![stream.transferId].status = "completed"]
  /\ stream' = [stream EXCEPT !.open = FALSE]
  /\ UNCHANGED << srcFile, chunkStates, chunkIndex, pendingHandlers, toSender,
                  rcvActiveTransfers, receivedChunks, receivedTree, ackedChunks,
                  lastChunkRx, lastCompleteRx, resumeLog, faults, crashes, ledgerVars, netVars >>

(***************************************************************************)
(* Sender: inbound messages (handleTransferMessage on the sender).         *)
(***************************************************************************)
\* handleChunkAck: the chunk state follows the receiver's verdict, when the
\* transfer is known and belongs to a backup.
handleChunkAck(m) ==
  IF /\ m.transferId \in DOMAIN sndActiveTransfers
     /\ sndActiveTransfers[m.transferId].backupId # NoBackup
  THEN IF m.status = "error"
       THEN updateChunkState(chunkStates, m.chunkIndex, "failed", "error")
       ELSE IF m.status = "received"
            THEN updateChunkState(chunkStates, m.chunkIndex, "completed", "")
            ELSE chunkStates
  ELSE chunkStates

SenderReceive ==
  /\ toSender # << >>
  /\ LET m == Head(toSender)
     IN \/ /\ m.type = "chunk_ack"
           /\ chunkStates' = handleChunkAck(m)
           /\ ackedChunks' = IF m.transferId \in DOMAIN sndActiveTransfers
                             THEN ackedChunks \cup {m.chunkIndex}
                             ELSE ackedChunks
        \/ /\ m.type # "chunk_ack"    \* file_start_ack, file_complete_ack: default branch
           /\ UNCHANGED << chunkStates, ackedChunks >>
  /\ toSender' = Tail(toSender)
  /\ UNCHANGED << srcFile, sndActiveTransfers, stream, chunkIndex, pendingHandlers,
                  toReceiver, rcvActiveTransfers, receivedChunks, receivedTree, wire,
                  lastChunkRx, lastCompleteRx, resumeLog, faults, crashes, ledgerVars, netVars >>

(***************************************************************************)
(* Receiver: handleFileStart, handleFileChunk, handleFileComplete.         *)
(***************************************************************************)
NoChunkRx == [seen |-> FALSE, msg |-> FileChunkMsg(0, 0, << >>, 0), known |-> FALSE,
              ack |-> "", stored |-> FALSE]

NoCompleteRx == [seen |-> FALSE, transferId |-> 0, assembled |-> FALSE,
                 mismatch |-> FALSE, ack |-> "", status |-> ""]

Put(map, key, value) ==
  [k \in DOMAIN map \cup {key} |-> IF k = key THEN value ELSE map[k]]

Remove(map, key) == [k \in DOMAIN map \ {key} |-> map[k]]

ReceiveFileStart ==
  /\ toReceiver # << >>
  /\ Head(toReceiver).type = "file_start"
  /\ LET m == Head(toReceiver)
     IN /\ receivedChunks' = Put(receivedChunks, m.transferId, << >>)
        /\ rcvActiveTransfers' =
             Put(rcvActiveTransfers, m.transferId,
                 [totalChunks |-> m.totalChunks, receivedChunks |-> 0,
                  expectedHash |-> m.hash, status |-> "receiving"])
        /\ toSender' = Append(toSender, AckMsg("file_start_ack", m.transferId, 0, "ready"))
  /\ toReceiver' = Tail(toReceiver)
  /\ UNCHANGED << srcFile, chunkStates, sndActiveTransfers, stream, chunkIndex,
                  pendingHandlers, receivedTree, wire, ackedChunks, lastChunkRx,
                  lastCompleteRx, resumeLog, faults, crashes, ledgerVars, netVars >>

\* The try block of handleFileChunk reaches its end (no throw): the box opens,
\* the hash of the plaintext is the claimed one, and chunks.set finds the map.
ChunkAccepted_NoHashCheck(m) ==
  /\ decryptOk(fromBase64(m.encryptedData))
  /\ m.transferId \in DOMAIN receivedChunks

ChunkAccepted(m) ==
  /\ decryptOk(fromBase64(m.encryptedData))
  /\ hashData(decrypt(fromBase64(m.encryptedData))) = m.hash
  /\ m.transferId \in DOMAIN receivedChunks

ReceiveFileChunk ==
  /\ toReceiver # << >>
  /\ Head(toReceiver).type = "file_chunk"
  /\ LET m == Head(toReceiver)
         tid == m.transferId
     IN /\ IF ChunkAccepted(m)
           THEN /\ receivedChunks' =
                     [receivedChunks EXCEPT ![tid] =
                        Put(@, m.chunkIndex, decrypt(fromBase64(m.encryptedData)))]
                /\ rcvActiveTransfers' =
                     [rcvActiveTransfers EXCEPT ![tid].receivedChunks = @ + 1]
                /\ toSender' = Append(toSender,
                                      AckMsg("chunk_ack", tid, m.chunkIndex, "received"))
           ELSE /\ UNCHANGED << receivedChunks, rcvActiveTransfers >>
                /\ toSender' = Append(toSender,
                                      AckMsg("chunk_ack", tid, m.chunkIndex, "error"))
        /\ lastChunkRx' = [seen |-> TRUE, msg |-> m,
                           known |-> tid \in DOMAIN receivedChunks,
                           ack |-> toSender'[Len(toSender')].status,
                           stored |-> receivedChunks' # receivedChunks]
  /\ toReceiver' = Tail(toReceiver)
  /\ UNCHANGED << srcFile, chunkStates, sndActiveTransfers, stream, chunkIndex,
                  pendingHandlers, receivedTree, wire, ackedChunks, lastCompleteRx,
                  resumeLog, faults, crashes, ledgerVars, netVars >>

\* The write loop of handleFileComplete: chunks 0, 1, ... in order, up to the
\* first index that is missing.
RECURSIVE Reassemble(_, _, _)
Reassemble(chunks, i, total) ==
  IF i >= total \/ i \notin DOMAIN chunks THEN << >>
  ELSE chunks[i] \o Reassemble(chunks, i + 1, total)

AllPresent(chunks, total) == \A i \in 0 .. (total - 1) : i \in DOMAIN chunks

ReceiveFileComplete ==
  /\ toReceiver # << >>
  /\ Head(toReceiver).type = "file_complete"
  /\ LET m == Head(toReceiver)
         tid == m.transferId
     IN IF \/ tid \notin DOMAIN rcvActiveTransfers
           \/ tid \notin DOMAIN receivedChunks
           \/ Cardinality(DOMAIN receivedChunks[tid]) # m.totalChunks
        THEN \* "Unknown transfer" / "Missing chunks": return, nothing is sent
             /\ lastCompleteRx' = [seen |-> TRUE, transferId |-> tid, assembled |-> FALSE,
                                   mismatch |-> FALSE, ack |-> "", status |-> ""]
             /\ UNCHANGED << receivedTree, rcvActiveTransfers, receivedChunks, toSender >>
        ELSE LET chunks == receivedChunks[tid]
                 written == Reassemble(chunks, 0, m.totalChunks)
                 success == /\ AllPresent(chunks, m.totalChunks)
                            /\ Sha256(written) = m.hash
             IN /\ receivedTree' = Put(receivedTree, FileName, written)
                /\ rcvActiveTransfers' =
                     [rcvActiveTransfers EXCEPT ![tid].status =
                        IF success THEN "completed" ELSE "error"]
                /\ receivedChunks' =
                     IF success THEN Remove(receivedChunks, tid) ELSE receivedChunks
                /\ toSender' = Append(toSender,
                     AckMsg("file_complete_ack", tid, 0,
                            IF success THEN "success" ELSE "error"))
                /\ lastCompleteRx' =
                     [seen |-> TRUE, transferId |-> tid, assembled |-> TRUE,
                      mismatch |-> AllPresent(chunks, m.totalChunks) /\ ~success,
                      ack |-> IF success THEN "success" ELSE "error",
                      status |-> IF success THEN "completed" ELSE "error"]
  /\ toReceiver' = Tail(toReceiver)
  /\ UNCHANGED << srcFile, chunkStates, sndActiveTransfers, stream, chunkIndex,
                  pendingHandlers, wire, ackedChunks, lastChunkRx, resumeLog, faults,
                  crashes, ledgerVars, netVars >>

(***************************************************************************)
(* Environment of the pipeline: the remote side is not trusted, and the    *)
(* sender process may be killed and restarted.                             *)
(***************************************************************************)
UnknownTransfer == 9

\* A message reaches the receiver's dispatcher altered: a damaged box, a
\* chunk hash or file hash that is not the content's, a transfer id that was
\* never started.
Tamper ==
  /\ faults < MaxFaults
  /\ toReceiver # << >>
  /\ LET m == Head(toReceiver)
         box == fromBase64(m.encryptedData)
     IN \/ /\ m.type = "file_chunk"
           /\ toReceiver' = << [m EXCEPT !.encryptedData =
                                  toBase64([box EXCEPT !.tag = FALSE])] >>
                            \o Tail(toReceiver)
        \/ /\ m.type = "file_chunk"
           /\ toReceiver' = << [m EXCEPT !.hash = @ + 1] >> \o Tail(toReceiver)
        \/ /\ m.type = "file_chunk"
           /\ toReceiver' = << [m EXCEPT !.transferId = UnknownTransfer] >>
                            \o Tail(toReceiver)
        \/ /\ m.type = "file_complete"
           /\ toReceiver' = << [m EXCEPT !.hash = @ + 1] >> \o Tail(toReceiver)
  /\ faults' = faults + 1
  /\ UNCHANGED << srcFile, chunkStates, sndActiveTransfers, stream, chunkIndex,
                  pendingHandlers, toSender, rcvActiveTransfers, receivedChunks,
                  receivedTree, wire, ackedChunks, lastChunkRx, lastCompleteRx,
                  resumeLog, crashes, ledgerVars, netVars >>

\* The sender process is killed: what it held in memory and what was in
\* flight on its channel is gone, the chunk-state table stays.
SenderCrash ==
  /\ crashes < MaxCrashes
  /\ DOMAIN sndActiveTransfers # {}
  /\ crashes' = crashes + 1
  /\ sndActiveTransfers' = << >>
  /\ stream' = NoStream
  /\ chunkIndex' = 0
  /\ pendingHandlers' = {}
  /\ toReceiver' = << >>
  /\ toSender' = << >>
  /\ wire' = << >>
  /\ ackedChunks' = {}
  /\ UNCHANGED << srcFile, chunkStates, rcvActiveTransfers, receivedChunks,
                  receivedTree, lastChunkRx, lastCompleteRx, resumeLog, faults,
                  ledgerVars, netVars >>

NoResume == [crash |-> 0, incomplete |-> << >>, completed |-> {}, started |-> FALSE]

\* resumeTransfer on the restarted sender: nothing to do when the table has no
\* incomplete chunk, otherwise sendFile under a fresh transfer id.
ResumeTransfer ==
  /\ crashes > 0
  /\ resumeLog.crash # crashes
  /\ DOMAIN sndActiveTransfers = {}
  /\ LET incompleteChunks == getIncompleteChunks(chunkStates)
         seen == [crash |-> crashes, incomplete |-> incompleteChunks,
                  completed |-> {i \in DOMAIN chunkStates :
                                   chunkStates[i].transfer_state = "completed"},
                  started |-> incompleteChunks # << >>]
     IN \/ /\ Len(incompleteChunks) = 0
           /\ resumeLog' = seen
           /\ UNCHANGED << sndActiveTransfers, stream, chunkIndex, toReceiver, wire,
                           ackedChunks >>
        \/ /\ Len(incompleteChunks) # 0
           /\ resumeLog' = seen
           /\ StartSendFile(1 + crashes, BackupId)
  /\ UNCHANGED << srcFile, chunkStates, pendingHandlers, toSender, rcvActiveTransfers,
                  receivedChunks, receivedTree, lastChunkRx, lastCompleteRx, faults,
                  crashes, ledgerVars, netVars >>

(***************************************************************************)
(* Sender: the calls that send the chunks of a backup (sendFile with a     *)
(* backup id, resumeTransfer, retryFailedChunks) and the receiver's acks.  *)
(***************************************************************************)
maxRetries == 3

\* transferId of a retried chunk: `retry-${backupId}-${chunk.chunk_index}`
RetryTransferId(idx) == 100 + idx

NoSend == [via |-> "none", sent |-> {}, attemptsBefore |-> << >>]

attemptsOf(table, idx) == IF idx \in DOMAIN table THEN table[idx].attempts ELSE 0

\* What the call observed: the chunks it sent and the attempt count each of
\* them had in the table when the call began.
SendObserved(via, sent) ==
  [via |-> via, sent |-> sent,
   attemptsBefore |-> [i \in sent |-> attemptsOf(chunkStates, i)]]

\* sendFile for the backup, from file_start to the stream's 'end': every chunk
\* from resumeFromChunk on gets its state saved as transferring and is sent.
SendFileOfBackup(tid, via) ==
  LET resumeFromChunk == ResumeFromChunk(BackupId)
      sent == resumeFromChunk .. (FileChunks - 1)
  IN /\ chunkStates' =
          [i \in DOMAIN chunkStates \cup sent |->
             IF i \in sent
             THEN saveTransferChunkState(chunkStates, i, hashData(<< srcFile[i] >>),
                                         "transferring")[i]
             ELSE chunkStates[i]]
     /\ transmitted' = [i \in ChunkIndices |->
                          IF i \in sent THEN transmitted[i] + 1 ELSE transmitted[i]]
     /\ awaitingAck' = awaitingAck \o
          [k \in 1 .. (FileChunks - resumeFromChunk) |->
             [transferId |-> tid, chunkIndex |-> resumeFromChunk + k - 1]]
     /\ sndActiveTransfers' =
          [t \in DOMAIN sndActiveTransfers \cup {tid} |->
             IF t = tid
             THEN [totalChunks |-> FileChunks, sentChunks |-> FileChunks,
                   status |-> "completed", backupId |-> BackupId]
             ELSE sndActiveTransfers[t]]
     /\ lastSend' = SendObserved(via, sent)

\* The first sendFile call for the backup.
SendBackup ==
  /\ transferCalls = 0
  /\ transferCalls' = transferCalls + 1
  /\ SendFileOfBackup(transferCalls + 1, "send")
  /\ UNCHANGED << srcFile, stream, chunkIndex, pendingHandlers, toReceiver, toSender,
                  rcvActiveTransfers, receivedChunks, receivedTree, wire,
                  ackedChunks, lastChunkRx, lastCompleteRx, resumeLog, faults,
                  crashes, lastAck, ledgerVars, limiterVars, sessionVars,
                  coreEngines >>

\* resumeTransfer: returns when the table has no incomplete chunk, otherwise
\* sendFile under a fresh transfer id.
ResumeBackup ==
  /\ transferCalls > 0
  /\ transferCalls < MaxTransferCalls
  /\ transferCalls' = transferCalls + 1
  /\ LET incompleteChunks == getIncompleteChunks(chunkStates)
     IN \/ /\ Len(incompleteChunks) = 0
           /\ lastSend' = SendObserved("resume", {})
           /\ UNCHANGED << chunkStates, transmitted, awaitingAck, sndActiveTransfers >>
        \/ /\ Len(incompleteChunks) # 0
           /\ SendFileOfBackup(transferCalls + 1, "resume")
  /\ UNCHANGED << srcFile, stream, chunkIndex, pendingHandlers, toReceiver, toSender,
                  rcvActiveTransfers, receivedChunks, receivedTree, wire,
                  ackedChunks, lastChunkRx, lastCompleteRx, resumeLog, faults,
                  crashes, lastAck, ledgerVars, limiterVars, sessionVars,
                  coreEngines >>

\* The chunks retryFailedChunks sends: failed, below the attempt cap, and
\* whose stored hash is still the hash of the file's chunk.
failedChunks(table) ==
  {i \in DOMAIN table : /\ table[i].transfer_state \notin {"completed", "verified"}
                        /\ table[i].transfer_state = "failed"
                        /\ table[i].attempts < maxRetries}

RetryFailedChunks ==
  /\ transferCalls > 0
  /\ transferCalls < MaxTransferCalls
  /\ transferCalls' = transferCalls + 1
  /\ LET sent == {i \in failedChunks(chunkStates) :
                    hashData(<< srcFile[i] >>) = chunkStates[i].chunk_hash}
         order == OrderByIndex(sent)
     IN /\ chunkStates' =
             [i \in DOMAIN chunkStates |->
                IF i \in sent
                THEN saveTransferChunkState(chunkStates, i, chunkStates[i].chunk_hash,
                                            "transferring")[i]
                ELSE chunkStates[i]]
        /\ transmitted' = [i \in ChunkIndices |->
                             IF i \in sent THEN transmitted[i] + 1 ELSE transmitted[i]]
        /\ awaitingAck' = awaitingAck \o
             [k \in 1 .. Len(order) |->
                [transferId |-> RetryTransferId(order[k]), chunkIndex |-> order[k]]]
        /\ lastSend' = SendObserved("retry", sent)
  /\ UNCHANGED << srcFile, sndActiveTransfers, stream, chunkIndex, pendingHandlers,
                  toReceiver, toSender, rcvActiveTransfers, receivedChunks,
                  receivedTree, wire, ackedChunks, lastChunkRx, lastCompleteRx,
                  resumeLog, faults, crashes, lastAck, ledgerVars, limiterVars,
                  sessionVars, coreEngines >>

NoAck == [seen |-> FALSE, retried |-> FALSE, chunkIndex |-> 0, status |-> "",
          stateAfter |-> "", errorAfter |-> ""]

\* The receiver's chunk_ack for the oldest unanswered file_chunk reaches
\* handleChunkAck, with either verdict.
ChunkAck ==
  /\ awaitingAck # << >>
  /\ \E status \in {"received", "error"} :
       LET sent == Head(awaitingAck)
       IN /\ chunkStates' = handleChunkAck(AckMsg("chunk_ack", sent.transferId,
                                                  sent.chunkIndex, status))
          /\ lastAck' = [seen |-> TRUE,
                         retried |-> sent.transferId = RetryTransferId(sent.chunkIndex),
                         chunkIndex |-> sent.chunkIndex, status |-> status,
                         stateAfter |-> chunkStates'[sent.chunkIndex].transfer_state,
                         errorAfter |-> chunkStates'[sent.chunkIndex].error_message]
  /\ awaitingAck' = Tail(awaitingAck)
  /\ UNCHANGED << srcFile, sndActiveTransfers, stream, chunkIndex, pendingHandlers,
                  toReceiver, toSender, rcvActiveTransfers, receivedChunks,
                  receivedTree, wire, ackedChunks, lastChunkRx, lastCompleteRx,
                  resumeLog, faults, crashes, transmitted, lastSend, transferCalls,
                  ledgerVars, limiterVars, sessionVars, coreEngines >>

RetryInit ==
  /\ transmitted = [i \in ChunkIndices |-> 0]
  /\ awaitingAck = << >>
  /\ lastSend = NoSend
  /\ lastAck = NoAck
  /\ transferCalls = 0

\* SpecRetry: the backup is sent, then resumed and retried, while the
\* receiver's verdicts come in.
NextRetry ==
  \/ SendBackup
  \/ ResumeBackup
  \/ RetryFailedChunks
  \/ ChunkAck

(***************************************************************************)
(* Specifications of the transfer pipeline.                                *)
(***************************************************************************)
\* the source file: every chunk differs from the others
SourceFile == [i \in ChunkIndices |-> i + 1]

TransferInit ==
  /\ srcFile = SourceFile
  /\ chunkStates = << >>
  /\ sndActiveTransfers = << >>
  /\ stream = NoStream
  /\ chunkIndex = 0
  /\ pendingHandlers = {}
  /\ toReceiver = << >>
  /\ toSender = << >>
  /\ rcvActiveTransfers = << >>
  /\ receivedChunks = << >>
  /\ receivedTree = << >>
  /\ wire = << >>
  /\ ackedChunks = {}
  /\ lastChunkRx = NoChunkRx
  /\ lastCompleteRx = NoCompleteRx
  /\ resumeLog = NoResume
  /\ faults = 0
  /\ crashes = 0

\* Spec: one sendFile call, the receiver and the channel.
Next ==
  \/ SendFile
  \/ StreamData
  \/ HandlerResume
  \/ StreamEnd
  \/ SenderReceive
  \/ ReceiveFileStart
  \/ ReceiveFileChunk
  \/ ReceiveFileComplete

\* SpecUntrusted: the same, with altered inbound messages.
NextUntrusted ==
  \/ SendFile
  \/ StreamData
  \/ HandlerResume
  \/ StreamEnd
  \/ SenderReceive
  \/ ReceiveFileStart
  \/ ReceiveFileChunk
  \/ ReceiveFileComplete
  \/ Tamper

\* SpecResume: the same as Spec, with sender crashes and resumeTransfer.
NextResume ==
  \/ SendFile
  \/ StreamData
  \/ HandlerResume
  \/ StreamEnd
  \/ SenderReceive
  \/ ReceiveFileStart
  \/ ReceiveFileChunk
  \/ ReceiveFileComplete
  \/ SenderCrash
  \/ ResumeTransfer

(***************************************************************************)
(* Allocation ledger (StorageAllocation).                                  *)
(***************************************************************************)
Peers == {"p1", "p2"}

NoAllocation == [offered |-> 0, used |-> 0]

NoAccept == [called |-> FALSE, requestedBytes |-> 0, fromPeerId |-> "",
             canAccept |-> FALSE, reason |-> "",
             before |-> << 0, 0, 0, << >> >>]

Ledger == << maxStorageOffered, storageOffered, storageUsed, allocations >>

Max0(x) == IF x > 0 THEN x ELSE 0

getAllocatedToPeer(peerId) ==
  IF peerId \in DOMAIN allocations THEN allocations[peerId].offered ELSE 0

RatioViolation == "Insufficient allocation - violates 1:1 ratio"
CapacityReached == "Maximum storage capacity reached"

\* canAcceptBackup: the 1:1 ratio check first, then the storage limit.
canAcceptBackup_Mut(requestedBytes, fromPeerId) ==
  IF storageUsed + requestedBytes >= storageOffered + getAllocatedToPeer(fromPeerId)
  THEN [canAccept |-> FALSE, reason |-> RatioViolation]
  ELSE IF storageOffered >= maxStorageOffered
       THEN [canAccept |-> FALSE, reason |-> CapacityReached]
       ELSE [canAccept |-> TRUE, reason |-> ""]

canAcceptBackup(requestedBytes, fromPeerId) ==
  IF storageUsed + requestedBytes > storageOffered + getAllocatedToPeer(fromPeerId)
  THEN [canAccept |-> FALSE, reason |-> RatioViolation]
  ELSE IF storageOffered >= maxStorageOffered
       THEN [canAccept |-> FALSE, reason |-> CapacityReached]
       ELSE [canAccept |-> TRUE, reason |-> ""]

SetMaxStorage ==
  /\ \E bytes \in 0 .. MaxTotal : maxStorageOffered' = bytes
  /\ lastAccept' = NoAccept
  /\ UNCHANGED << storageOffered, storageUsed, allocations, transferVars, netVars >>

CanAcceptBackup ==
  /\ \E requestedBytes \in 1 .. MaxBytes, fromPeerId \in Peers :
       lastAccept' = [called |-> TRUE, requestedBytes |-> requestedBytes,
                      fromPeerId |-> fromPeerId,
                      canAccept |-> canAcceptBackup(requestedBytes, fromPeerId).canAccept,
                      reason |-> canAcceptBackup(requestedBytes, fromPeerId).reason,
                      before |-> Ledger]
  /\ UNCHANGED << maxStorageOffered, storageOffered, storageUsed, allocations,
                  transferVars, netVars >>

\* allocateStorageToPeer: existing.offered += bytes; existing.used += bytes;
\* storageOffered += bytes.
AllocateStorageToPeer ==
  /\ \E peerId \in Peers, bytes \in 1 .. MaxBytes :
       LET existing == IF peerId \in DOMAIN allocations
                       THEN allocations[peerId] ELSE NoAllocation
       IN /\ storageOffered + bytes <= MaxTotal
          /\ existing.offered + bytes <= MaxTotal
          /\ existing.used + bytes <= MaxTotal
          /\ allocations' = Put(allocations, peerId,
                                [offered |-> existing.offered + bytes,
                                 used |-> existing.used + bytes])
          /\ storageOffered' = storageOffered + bytes
  /\ lastAccept' = NoAccept
  /\ UNCHANGED << maxStorageOffered, storageUsed, transferVars, netVars >>

\* recordStorageUsed: existing.used += bytes; storageUsed += bytes.
RecordStorageUsed ==
  /\ \E peerId \in Peers, bytes \in 1 .. MaxBytes :
       LET existing == IF peerId \in DOMAIN allocations
                       THEN allocations[peerId] ELSE NoAllocation
       IN /\ storageUsed + bytes <= MaxTotal
          /\ existing.used + bytes <= MaxTotal
          /\ allocations' = Put(allocations, peerId,
                                [offered |-> existing.offered,
                                 used |-> existing.used + bytes])
          /\ storageUsed' = storageUsed + bytes
  /\ lastAccept' = NoAccept
  /\ UNCHANGED << maxStorageOffered, storageOffered, transferVars, netVars >>

\* releaseAllocation: the peer's side and the global side are each clamped at 0;
\* an entry left with 0 offered and 0 used is deleted.
ReleaseAllocation ==
  /\ \E peerId \in DOMAIN allocations, bytes \in 1 .. MaxBytes, isOffered \in BOOLEAN :
       LET existing == allocations[peerId]
           released == IF isOffered
                       THEN [existing EXCEPT !.offered = Max0(@ - bytes)]
                       ELSE [existing EXCEPT !.used = Max0(@ - bytes)]
       IN /\ storageOffered' = IF isOffered THEN Max0(storageOffered - bytes)
                               ELSE storageOffered
          /\ storageUsed' = IF isOffered THEN storageUsed
                            ELSE Max0(storageUsed - bytes)
          /\ allocations' = IF released.offered = 0 /\ released.used = 0
                            THEN Remove(allocations, peerId)
                            ELSE Put(allocations, peerId, released)
  /\ lastAccept' = NoAccept
  /\ UNCHANGED << maxStorageOffered, transferVars, netVars >>

RECURSIVE SumOver(_, _, _)
SumOver(map, keys, side) ==
  IF keys = {} THEN 0
  ELSE LET k == CHOOSE x \in keys : TRUE
       IN (IF side = "offered" THEN map[k].offered ELSE map[k].used)
          + SumOver(map, keys \ {k}, side)

\* validateAllocation: the issues it reports
validateAllocation ==
  [offeredMismatch |-> SumOver(allocations, DOMAIN allocations, "offered") # storageOffered,
   usedMismatch |-> SumOver(allocations, DOMAIN allocations, "used") # storageUsed,
   ratioViolation |-> storageUsed > storageOffered]

LedgerInit ==
  /\ maxStorageOffered = 0
  /\ storageOffered = 0
  /\ storageUsed = 0
  /\ allocations = << >>
  /\ lastAccept = NoAccept

NextLedger ==
  \/ SetMaxStorage
  \/ CanAcceptBackup
  \/ AllocateStorageToPeer
  \/ RecordStorageUsed
  \/ ReleaseAllocation

(***************************************************************************)
(* Rate limiter: class RateLimiter (src/unnamed/part_006), constructed by  *)
(* P2PConnection with the options of p2p.js 50-55.                         *)
(***************************************************************************)
maxRequests == 100

windowMs == 60000

maxBurst == 20

burstWindowMs == 1000

\* the ban the dispatcher asks for (p2p.js 528)
banDurationMs == 300000

\* const messageLimits of checkMessageTypeLimit
messageLimits ==
  [ file_chunk        |-> [max |-> 200, window |-> 60000],
    ping              |-> [max |-> 60,  window |-> 60000],
    storage_challenge |-> [max |-> 10,  window |-> 60000],
    peer_identity     |-> [max |-> 5,   window |-> 60000],
    file_start        |-> [max |-> 20,  window |-> 60000] ]

\* Map.get(key) || []
GetList(map, key) == IF key \in DOMAIN map THEN map[key] ELSE << >>

\* the key of a peer's coarse list, and `${peerId}-${messageType}`
PeerKey(peerId) == << peerId, "" >>

TypeKey(peerId, messageType) == << peerId, messageType >>

\* list.filter(time => t - time < window)
Recent(list, t, window) == SelectSeq(list, LAMBDA time : t - time < window)

checkBurstLimit(peerId, t) ==
  Len(Recent(GetList(bursts, peerId), t, burstWindowMs)) < maxBurst

checkWindowLimit_Mut(peerId, t) ==
  Len(Recent(GetList(requests, PeerKey(peerId)), t, windowMs)) <= maxRequests

checkWindowLimit(peerId, t) ==
  Len(Recent(GetList(requests, PeerKey(peerId)), t, windowMs)) < maxRequests

\* the filtered list of the message type, pushed to on admission
recentOfType(peerId, messageType, t) ==
  Recent(GetList(requests, TypeKey(peerId, messageType)), t,
         messageLimits[messageType].window)

checkMessageTypeLimit(peerId, messageType, t) ==
  \/ messageType \notin DOMAIN messageLimits
  \/ Len(recentOfType(peerId, messageType, t)) < messageLimits[messageType].max

\* the result of isAllowed: "allowed", or the reason of the rate_limited event
isAllowed(peerId, messageType, t) ==
  IF ~checkBurstLimit(peerId, t) THEN "burst_limit"
  ELSE IF ~checkWindowLimit(peerId, t) THEN "window_limit"
  ELSE IF ~checkMessageTypeLimit(peerId, messageType, t) THEN "message_type_limit"
  ELSE "allowed"

\* this.requests after an admitted isAllowed: the type list is replaced by
\* its filtered copy plus t, then recordRequest pushes t to the coarse list
requestsAfter_Mut(peerId, messageType, t, reason) ==
  Put(requests, PeerKey(peerId), Append(GetList(requests, PeerKey(peerId)), t))

requestsAfter(peerId, messageType, t, reason) ==
  IF reason # "allowed" THEN requests
  ELSE LET typed == IF messageType \in DOMAIN messageLimits
                    THEN Put(requests, TypeKey(peerId, messageType),
                             Append(recentOfType(peerId, messageType, t), t))
                    ELSE requests
       IN Put(typed, PeerKey(peerId),
              Append(GetList(typed, PeerKey(peerId)), t))

burstsAfter(peerId, t, reason) ==
  IF reason # "allowed" THEN bursts
  ELSE Put(bursts, peerId, Append(GetList(bursts, peerId), t))

\* getStats: the two utilizations, in percent (compared without division)
getStats(peerId, t) ==
  [ windowRequests |-> Len(Recent(GetList(requests, PeerKey(peerId)), t, windowMs)),
    burstRequests  |-> Len(Recent(GetList(bursts, peerId), t, burstWindowMs)) ]

\* stats.windowUtilization > 90 || stats.burstUtilization > 95
ShouldBan(peerId, t) ==
  \/ getStats(peerId, t).windowRequests * 100 > 90 * maxRequests
  \/ getStats(peerId, t).burstRequests * 100 > 95 * maxBurst

\* cleanup: drop timestamps older than two windows, and empty lists
cleanupMap(map, t, window) ==
  LET kept == { k \in DOMAIN map : Recent(map[k], t, window * 2) # << >> }
  IN [k \in kept |-> Recent(map[k], t, window * 2)]

(***************************************************************************)
(* Inbound dispatcher: the 'data' handler of the peer channel              *)
(* (src/client/lib/p2p.js 516-561) and the handlers it calls.              *)
(***************************************************************************)
\* this.currentPeerId = null
NoPeer == "none"

\* const senderId = this.currentPeerId || 'unknown'
UnknownPeer == "unknown"

\* data.peerId of the signaling server's 'matched' / 'peer-matched' event
SignalPeer == "signal-peer"

\* verification.peerIdHash of a peer_identity message that verifies
IdentityHash == "id-hash"

SenderId == IF currentPeerId = NoPeer THEN UnknownPeer ELSE currentPeerId

isFileTransferMessage(messageType) ==
  messageType \in { "file_start", "file_chunk", "file_complete", "file_start_ack",
                    "file_complete_ack", "chunk_ack", "backup_start",
                    "backup_complete" }

\* the handler an admitted message is handed to
Route(message) ==
  IF message.type \in {"ping", "pong", "peer_identity"} THEN message.type
  ELSE IF systems /\ isFileTransferMessage(message.type) THEN "transfer"
  ELSE IF verification /\ message.type \in {"storage_challenge", "storage_proof"}
       THEN "verification"
  ELSE "message"

NoData ==
  [ seen |-> FALSE, at |-> 0, type |-> "", senderId |-> NoPeer, reason |-> "",
    routed |-> "", banned |-> FALSE, verified |-> FALSE, identityFailed |-> FALSE,
    burstRecent |-> 0, windowRecent |-> 0, typeRecent |-> 0, mutated |-> FALSE ]

\* observation: how many timestamps of the list are less than window before t
CountSince(list, t, window) ==
  Cardinality({ i \in DOMAIN list : list[i] + window > t })

\* a ban of peerId, started by banPeer, has not run its duration at t
BanRunning(peerId, t) == peerId \in DOMAIN banLog /\ t < banLog[peerId]

\* peer.on('data'): isAllowed, the ban of p2p.js 525-530, then the routing.
\* handlePong only emits; handlePeerIdentityMessage runs verifyPeerIdentity
\* (which stores the verified hash) and suspends before it sets currentPeerId.
OnData(message) ==
  LET senderId == SenderId
      reason   == isAllowed(senderId, message.type, now)
      ban      == reason # "allowed" /\ ShouldBan(senderId, now)
      routed   == IF reason # "allowed" THEN "dropped" ELSE Route(message)
      verifies == routed = "peer_identity" /\ message.valid
  IN /\ requests' = requestsAfter(senderId, message.type, now, reason)
     /\ bursts' = burstsAfter(senderId, now, reason)
     /\ bannedPeers' = IF ban THEN Put(bannedPeers, senderId, now + banDurationMs)
                       ELSE bannedPeers
     /\ unbanTimers' = IF ban
                       THEN unbanTimers \cup
                              {[peerId |-> senderId, at |-> now + banDurationMs]}
                       ELSE unbanTimers
     /\ banLog' = IF ban THEN Put(banLog, senderId, now + banDurationMs) ELSE banLog
     /\ verifiedPeers' = IF verifies THEN verifiedPeers \cup {IdentityHash}
                         ELSE verifiedPeers
     /\ pendingIdentity' = IF verifies THEN pendingIdentity \cup {IdentityHash}
                           ELSE pendingIdentity
     /\ missedIntervals' = IF routed = "pong" THEN 0 ELSE missedIntervals
     /\ lastData' = [ seen |-> TRUE, at |-> now, type |-> message.type,
                      senderId |-> senderId, reason |-> reason, routed |-> routed,
                      banned |-> BanRunning(senderId, now),
                      verified |-> senderId \in verifiedPeers,
                      identityFailed |-> routed = "peer_identity" /\ ~message.valid,
                      burstRecent |->
                        CountSince(GetList(bursts, senderId), now, burstWindowMs),
                      windowRecent |->
                        CountSince(GetList(requests, PeerKey(senderId)), now, windowMs),
                      typeRecent |->
                        CountSince(GetList(requests, TypeKey(senderId, message.type)),
                                   now, windowMs),
                      mutated |-> requests' # requests \/ bursts' # bursts ]

\* the rest of handlePeerIdentityMessage, after its awaits (p2p.js 654-662)
IdentityCached ==
  /\ pendingIdentity # {}
  /\ \E h \in pendingIdentity :
       /\ currentPeerId' = h
       /\ pendingIdentity' = pendingIdentity \ {h}
  /\ UNCHANGED << systems, socket, channel, connected, verifiedPeers, verification,
                  reconnectAttempts, reconnectTimers, dropsAwaiting, connectAwaiting,
                  pingInterval, closeState, reputation, lastData, lastLoss,
                  missedIntervals, scheduledDelays, connectionFailed, afterClose,
                  floodType, sessionMsgs, establishments,
                  limiterVars, transferVars, ledgerVars, engineVars >>

\* the message types a flooding peer repeats
FloodTypes == {"file_chunk", "pong", "ping", "peer_identity"}

\* how the flooding peer paces itself: "burst" sends at most maxBurst messages
\* per burst window, "flood" sends until it is denied
FloodPaces == {"burst", "flood"}

NoFlood == [type |-> "none", pace |-> "none"]

\* a remote peer that keeps sending one message type at one pace
PeerFlood ==
  /\ channel = "open"
  /\ \E type \in FloodTypes, pace \in FloodPaces :
       /\ floodType \in {NoFlood, [type |-> type, pace |-> pace]}
       /\ pace = "burst" => checkBurstLimit(SenderId, now)
       /\ floodType' = [type |-> type, pace |-> pace]
       /\ OnData([type |-> type, valid |-> TRUE])
  /\ UNCHANGED << now, systems, socket, channel, connected, currentPeerId,
                  verification, reconnectAttempts, reconnectTimers, dropsAwaiting,
                  connectAwaiting, pingInterval, closeState, reputation, 
                  lastLoss, scheduledDelays, connectionFailed, afterClose,
                  sessionMsgs, establishments, transferVars, ledgerVars, engineVars >>

\* a remote peer that sends pong messages as fast as the burst limit admits
PongFlood ==
  /\ floodType' = [type |-> "pong", pace |-> "burst"]
  /\ PeerFlood

\* the flooding peer spends the last request its window admits on a
\* peer_identity message that verifies
PeerIdentifies ==
  /\ channel = "open"
  /\ IdentityHash \notin verifiedPeers
  /\ CountSince(GetList(requests, PeerKey(SenderId)), now, windowMs) = maxRequests - 1
  /\ OnData([type |-> "peer_identity", valid |-> TRUE])
  /\ UNCHANGED << now, systems, socket, channel, connected, currentPeerId,
                  verification, reconnectAttempts, reconnectTimers, dropsAwaiting,
                  connectAwaiting, pingInterval, closeState, reputation,
                  lastLoss, scheduledDelays, connectionFailed, afterClose,
                  floodType, sessionMsgs, establishments, transferVars, ledgerVars,
                  engineVars >>

\* the messages a remote peer sends in the session model
SessionMessages ==
  { [type |-> "peer_identity", valid |-> TRUE],
    [type |-> "peer_identity", valid |-> FALSE],
    [type |-> "pong", valid |-> TRUE],
    [type |-> "file_chunk", valid |-> TRUE],
    [type |-> "storage_challenge", valid |-> TRUE] }

SessionData ==
  /\ channel = "open"
  /\ sessionMsgs < MaxSessionMsgs
  /\ sessionMsgs' = sessionMsgs + 1
  /\ \E message \in SessionMessages : OnData(message)
  /\ UNCHANGED << now, systems, socket, channel, connected, currentPeerId,
                  verification, reconnectAttempts, reconnectTimers, dropsAwaiting,
                  connectAwaiting, pingInterval, closeState, reputation, 
                  lastLoss, scheduledDelays, connectionFailed, afterClose,
                  floodType, establishments, transferVars, ledgerVars, engineVars >>

\* a pong of the remote peer arrives (the reply to a keepalive ping)
PeerPong ==
  /\ channel = "open"
  /\ sessionMsgs < MaxSessionMsgs
  /\ sessionMsgs' = sessionMsgs + 1
  /\ OnData([type |-> "pong", valid |-> TRUE])
  /\ UNCHANGED << now, systems, socket, channel, connected, currentPeerId,
                  verification, reconnectAttempts, reconnectTimers, dropsAwaiting,
                  connectAwaiting, pingInterval, closeState, reputation,
                  lastLoss, scheduledDelays, connectionFailed, afterClose,
                  floodType, establishments, transferVars, ledgerVars, engineVars >>

\* a frame that is not JSON arrives: JSON.parse at the head of the 'data'
\* handler throws, nothing catches it inside the handler, and the process's
\* uncaughtException handler ends the process (process.exit, or shutdown of
\* the service)
MalformedData ==
  /\ channel = "open"
  /\ sessionMsgs < MaxSessionMsgs
  /\ sessionMsgs' = sessionMsgs + 1
  /\ lastData' = [ NoData EXCEPT !.seen = TRUE, !.at = now, !.type = "malformed",
                                 !.senderId = SenderId, !.routed = "threw" ]
  /\ channel' = "closed"
  /\ connected' = FALSE
  /\ UNCHANGED << systems, socket, currentPeerId, verifiedPeers, pendingIdentity,
                  verification, reconnectAttempts, reconnectTimers, dropsAwaiting,
                  connectAwaiting, pingInterval, closeState, reputation, lastLoss,
                  missedIntervals, scheduledDelays, connectionFailed, afterClose,
                  floodType, establishments, limiterVars, transferVars, ledgerVars,
                  engineVars >>

\* time passes: the flooding peer waits once it was denied or has filled the
\* burst window, by a burst window or, when banned, by the length of the ban;
\* a due cleanup and a pending identity continuation run before time passes on
CleanupDue ==
  /\ now % (windowMs \div 2) = 0
  /\ \/ cleanupMap(requests, now, windowMs) # requests
     \/ cleanupMap(bursts, now, burstWindowMs) # bursts

Advance ==
  /\ lastData.seen /\ lastData.at = now
  /\ \/ lastData.reason # "allowed"
     \/ floodType.pace = "burst" /\ ~checkBurstLimit(lastData.senderId, now)
  /\ ~CleanupDue
  /\ pendingIdentity = {}
  /\ \E dt \in {burstWindowMs} \cup
               (IF BanRunning(lastData.senderId, now) THEN {banDurationMs} ELSE {}) :
       /\ now + dt <= MaxClock
       /\ now' = now + dt
  /\ UNCHANGED << requests, bursts, bannedPeers, unbanTimers, banLog,
                  sessionVars, transferVars, ledgerVars, engineVars >>

\* isBanned at instant t: a ban is stored for the peer and t is not past it
isBanned(peerId, t) ==
  /\ peerId \in DOMAIN bannedPeers
  /\ bannedPeers[peerId] # 0
  /\ ~(t > bannedPeers[peerId])

\* setInterval(() => this.cleanup(), this.windowMs / 2)
Cleanup ==
  /\ CleanupDue
  /\ requests' = cleanupMap(requests, now, windowMs)
  /\ bursts' = cleanupMap(bursts, now, burstWindowMs)
  /\ UNCHANGED << now, bannedPeers, unbanTimers, banLog,
                  sessionVars, transferVars, ledgerVars, engineVars >>

\* the setTimeout of banPeer: deletes the ban of the peer, whichever call set it
UnbanTimer ==
  /\ \E timer \in unbanTimers :
       /\ timer.at <= now
       /\ unbanTimers' = unbanTimers \ {timer}
       /\ bannedPeers' = IF timer.peerId \in DOMAIN bannedPeers
                         THEN Remove(bannedPeers, timer.peerId) ELSE bannedPeers
  /\ UNCHANGED << now, requests, bursts, banLog,
                  sessionVars, transferVars, ledgerVars, engineVars >>

(***************************************************************************)
(* Reputation engine: class ReputationSystem (src/client/lib/              *)
(* reputation.js).  Scores are exact fractions << numerator, denominator   *)
(* >> in lowest terms; the record keeps the counters and the derived       *)
(* fields and leaves out timestamps, notes and the verification-time       *)
(* average, which no score reads.                                          *)
(***************************************************************************)
RECURSIVE GCD(_, _)
GCD(a, b) == IF b = 0 THEN a ELSE GCD(b, a % b)

Rat(n, d) == LET g == GCD(n, d) IN << n \div g, d \div g >>

RatAdd(a, b) == Rat(a[1] * b[2] + b[1] * a[2], a[2] * b[2])

RatMul(a, b) == Rat(a[1] * b[1], a[2] * b[2])

RatLess(a, b) == a[1] * b[2] < b[1] * a[2]

\* 1 - a, for a <= 1
OneMinus(a) == Rat(a[2] - a[1], a[2])

weights ==
  [ uptime |-> Rat(3, 10), responseTime |-> Rat(2, 10),
    verificationSuccess |-> Rat(3, 10), dataIntegrity |-> Rat(2, 10) ]

thresholds ==
  [ trusted |-> Rat(8, 10), acceptable |-> Rat(6, 10),
    suspicious |-> Rat(4, 10), blacklisted |-> Rat(2, 10) ]

maxAcceptableTime == 30000

uptimeHistoryCap == 100

uptimeRecent == 50

\* migrateReputationData of a record that only names the peer
NoReputation ==
  [ totalConnections |-> 0, successfulConnections |-> 0, failedConnections |-> 0,
    averageResponseTime |-> Rat(0, 1),
    totalChallenges |-> 0, successfulChallenges |-> 0, failedChallenges |-> 0,
    dataIntegrityScore |-> Rat(1, 1), corruptedFiles |-> 0,
    totalFilesTransferred |-> 0,
    uptimeScore |-> Rat(1, 1), uptimeHistory |-> << >>,
    overallScore |-> Rat(1, 2), trustLevel |-> "unknown",
    isBlacklisted |-> FALSE ]

\* migrateReputationData of a full record: value || default replaces every
\* falsy value (0, false) by the default
migrateReputationData(r) ==
  [ r EXCEPT !.dataIntegrityScore = IF @[1] = 0 THEN Rat(1, 1) ELSE @,
             !.uptimeScore = IF @[1] = 0 THEN Rat(1, 1) ELSE @,
             !.overallScore = IF @[1] = 0 THEN Rat(1, 2) ELSE @ ]

getPeerReputation(peerId) ==
  IF peerId \in DOMAIN reputation THEN reputation[peerId] ELSE NoReputation

calculateResponseTimeScore(avgResponseTime) ==
  IF avgResponseTime[1] = 0 THEN Rat(1, 2)
  ELSE IF RatLess(Rat(maxAcceptableTime, 1), avgResponseTime) THEN Rat(0, 1)
  ELSE OneMinus(Rat(avgResponseTime[1], avgResponseTime[2] * maxAcceptableTime))

getTrustLevel(score) ==
  IF ~RatLess(score, thresholds.trusted) THEN "trusted"
  ELSE IF ~RatLess(score, thresholds.acceptable) THEN "acceptable"
  ELSE IF ~RatLess(score, thresholds.suspicious) THEN "suspicious"
  ELSE "untrusted"

blacklistPeer(r) ==
  [ r EXCEPT !.isBlacklisted = TRUE, !.overallScore = Rat(0, 1),
             !.trustLevel = "blacklisted" ]

updateOverallScore(r) ==
  LET connectionScore ==
        IF r.totalConnections > 0
        THEN Rat(r.successfulConnections, r.totalConnections) ELSE Rat(1, 2)
      verificationScore ==
        IF r.totalChallenges > 0
        THEN Rat(r.successfulChallenges, r.totalChallenges) ELSE Rat(1, 2)
      responseTimeScore == calculateResponseTimeScore(r.averageResponseTime)
      score ==
        RatAdd(RatAdd(RatMul(connectionScore, weights.uptime),
                      RatMul(responseTimeScore, weights.responseTime)),
               RatAdd(RatMul(verificationScore, weights.verificationSuccess),
                      RatMul(r.dataIntegrityScore, weights.dataIntegrity)))
      scored == [ r EXCEPT !.overallScore = score,
                           !.trustLevel = getTrustLevel(score) ]
  IN IF RatLess(score, thresholds.blacklisted) /\ ~r.isBlacklisted
     THEN blacklistPeer(scored)
     ELSE scored

unblacklistPeer(r) == updateOverallScore([ r EXCEPT !.isBlacklisted = FALSE ])

\* the record of the peer after recordConnection(peerId, responseTime, success)
connectionRecorded(r, responseTime, success) ==
  LET total == r.totalConnections + 1
      counted == [ r EXCEPT !.totalConnections = total ]
  IN updateOverallScore(
       IF success
       THEN [ counted EXCEPT
                !.successfulConnections = @ + 1,
                !.averageResponseTime =
                   IF responseTime > 0
                   THEN Rat(@[1] * (total - 1) + responseTime * @[2], @[2] * total)
                   ELSE @ ]
       ELSE [ counted EXCEPT !.failedConnections = @ + 1 ])

recordConnection(peerId, responseTime, success) ==
  Put(reputation, peerId,
      connectionRecorded(getPeerReputation(peerId), responseTime, success))

\* the record of the peer after recordVerification(peerId, success, 0)
verificationRecorded(r, success) ==
  updateOverallScore(
    IF success
    THEN [ r EXCEPT !.totalChallenges = @ + 1, !.successfulChallenges = @ + 1 ]
    ELSE [ r EXCEPT !.totalChallenges = @ + 1, !.failedChallenges = @ + 1 ])

recordVerification(peerId, success) ==
  Put(reputation, peerId, verificationRecorded(getPeerReputation(peerId), success))

\* the record after recordFileTransfer(peerId, success, filesCount, corruptedCount)
fileTransferRecorded(r, filesCount, corruptedCount) ==
  LET files == r.totalFilesTransferred + filesCount
      corrupted == r.corruptedFiles + corruptedCount
  IN updateOverallScore(
       [ r EXCEPT !.totalFilesTransferred = files,
                  !.corruptedFiles = corrupted,
                  !.dataIntegrityScore =
                     IF files > 0 THEN OneMinus(Rat(corrupted, files)) ELSE @ ])

Last(seq, n) == IF Len(seq) <= n THEN seq ELSE SubSeq(seq, Len(seq) - n + 1, Len(seq))

\* the record after recordUptime(peerId, wasAvailable)
uptimeRecorded(r, wasAvailable) ==
  LET kept == IF Len(r.uptimeHistory) >= uptimeHistoryCap
              THEN Tail(r.uptimeHistory) ELSE r.uptimeHistory
      history == Append(kept, wasAvailable)
      recentChecks == Last(history, uptimeRecent)
      upCount == Cardinality({ i \in DOMAIN recentChecks : recentChecks[i] })
  IN updateOverallScore(
       [ r EXCEPT !.uptimeHistory = history,
                  !.uptimeScore = Rat(upCount, Len(recentChecks)) ])

mergeReputationData_Mut(current, incoming) ==
  [ current EXCEPT
      !.successfulConnections = @ + incoming.successfulConnections,
      !.successfulChallenges = @ + incoming.successfulChallenges,
      !.isBlacklisted = @ \/ incoming.isBlacklisted ]

mergeReputationData(current, incoming) ==
  [ current EXCEPT
      !.totalConnections = @ + incoming.totalConnections,
      !.successfulConnections = @ + incoming.successfulConnections,
      !.failedConnections = @ + incoming.failedConnections,
      !.totalChallenges = @ + incoming.totalChallenges,
      !.successfulChallenges = @ + incoming.successfulChallenges,
      !.failedChallenges = @ + incoming.failedChallenges,
      !.totalFilesTransferred = @ + incoming.totalFilesTransferred,
      !.corruptedFiles = @ + incoming.corruptedFiles,
      !.isBlacklisted = @ \/ incoming.isBlacklisted ]

\* importReputation(data, merge = true), for the one peer of data.peers
importReputation(peerId, incoming) ==
  Put(reputation, peerId,
      IF peerId \notin DOMAIN reputation
      THEN migrateReputationData(incoming)
      ELSE mergeReputationData(reputation[peerId], incoming))

\* isPeerAcceptable: minScore is NoMin when the argument is omitted
NoMin == << >>

isPeerAcceptable(r, minScore) ==
  LET threshold == IF minScore = NoMin \/ minScore[1] = 0
                   THEN thresholds.acceptable ELSE minScore
  IN ~r.isBlacklisted /\ ~RatLess(r.overallScore, threshold)

(***************************************************************************)
(* Events of the reputation engine for one peer.                           *)
(***************************************************************************)
RepPeer == IdentityHash

ResponseTimes == {0, 15000}

MinScores == {NoMin, Rat(0, 1), Rat(1, 2), Rat(1, 1)}

\* records of an exported reputation file: a peer with some history, and a
\* peer that the exporting side had blacklisted
IncomingRecords ==
  { connectionRecorded(verificationRecorded(NoReputation, TRUE), 0, FALSE),
    blacklistPeer(NoReputation) }

NoQuery ==
  [ seen |-> FALSE, minScore |-> NoMin, acceptable |-> FALSE,
    isBlacklisted |-> FALSE, overallScore |-> Rat(0, 1) ]

RepEvent(kind) ==
  /\ repEvents < MaxRepEvents
  /\ repEvents' = repEvents + 1
  /\ repLog' = repLog \cup {kind}

RecordConnection ==
  /\ RepEvent("connection")
  /\ \E responseTime \in ResponseTimes, success \in BOOLEAN :
       reputation' = recordConnection(RepPeer, responseTime, success)
  /\ UNCHANGED << lastQuery, exceptReputation >>

RecordVerification ==
  /\ RepEvent("verification")
  /\ \E success \in BOOLEAN :
       reputation' = recordVerification(RepPeer, success)
  /\ UNCHANGED << lastQuery, exceptReputation >>

RecordFileTransfer ==
  /\ RepEvent("transfer")
  /\ \E corruptedCount \in {0, 1} :
       reputation' = Put(reputation, RepPeer,
                         fileTransferRecorded(getPeerReputation(RepPeer), 1,
                                              corruptedCount))
  /\ UNCHANGED << lastQuery, exceptReputation >>

RecordUptime ==
  /\ RepEvent("uptime")
  /\ \E wasAvailable \in BOOLEAN :
       reputation' = Put(reputation, RepPeer,
                         uptimeRecorded(getPeerReputation(RepPeer), wasAvailable))
  /\ UNCHANGED << lastQuery, exceptReputation >>

BlacklistPeer ==
  /\ RepEvent("blacklist")
  /\ reputation' = Put(reputation, RepPeer, blacklistPeer(getPeerReputation(RepPeer)))
  /\ UNCHANGED << lastQuery, exceptReputation >>

UnblacklistPeer ==
  /\ RepEvent("unblacklist")
  /\ reputation' = Put(reputation, RepPeer,
                       unblacklistPeer(getPeerReputation(RepPeer)))
  /\ UNCHANGED << lastQuery, exceptReputation >>

ImportReputation ==
  /\ RepEvent("import")
  /\ \E incoming \in IncomingRecords :
       reputation' = importReputation(RepPeer, incoming)
  /\ UNCHANGED << lastQuery, exceptReputation >>

IsPeerAcceptable ==
  /\ repEvents < MaxRepEvents
  /\ repEvents' = repEvents + 1
  /\ \E minScore \in MinScores :
       LET r == getPeerReputation(RepPeer)
       IN /\ reputation' = Put(reputation, RepPeer, r)
          /\ lastQuery' = [ seen |-> TRUE, minScore |-> minScore,
                            acceptable |-> isPeerAcceptable(r, minScore),
                            isBlacklisted |-> r.isBlacklisted,
                            overallScore |-> r.overallScore ]
  /\ UNCHANGED << repLog, exceptReputation >>

ReputationInit ==
  /\ repLog = {}
  /\ repEvents = 0
  /\ lastQuery = NoQuery

NextReputation ==
  \/ RecordConnection
  \/ RecordVerification
  \/ RecordFileTransfer
  \/ RecordUptime
  \/ BlacklistPeer
  \/ UnblacklistPeer
  \/ ImportReputation
  \/ IsPeerAcceptable

(***************************************************************************)
(* Proof of storage: class StorageVerification (src/client/lib/            *)
(* verification.js 6-518).  The challenger is this process; the custodian  *)
(* is the remote peer, running handleChallenge on its copy of the backup.  *)
(* sendChallenge always issues the default kind, random_blocks.            *)
(***************************************************************************)
\* generateRandomIndices(10, 1000)
challengeBlocks == 10

challengeSample == 1000

challengeHistoryCap == 100

\* hash of file i in the challenger's local metadata of the backup
LocalHash(i) == i + 1

\* hash of file i in the custodian's copy
CustodianHash(i, backup) == IF backup = "intact" THEN LocalHash(i) ELSE 0

\* some results of generateRandomIndices(challengeBlocks, challengeSample):
\* sets of challengeBlocks distinct indices below challengeSample
BlockIndexSets ==
  { 0 .. (challengeBlocks - 1),
    {2, 5, 7} \cup (100 .. (100 + challengeBlocks - 4)),
    (challengeSample - challengeBlocks) .. (challengeSample - 1) }

\* generateBlockProof: one block for each requested index below files.length
generateBlockProof(backup, blockIndices) ==
  { [index |-> i, hash |-> CustodianHash(i, backup)] :
      i \in { j \in blockIndices : j < BackupFiles } }

\* the storage_proof message handleChallenge sends: with the proof, or with
\* an error and no proof when the backup is not found
ProofMessage(challenge, backup) ==
  IF backup = "missing"
  THEN [ challengeId |-> challenge.id, hasProof |-> FALSE, blocks |-> {},
         intact |-> FALSE ]
  ELSE [ challengeId |-> challenge.id, hasProof |-> TRUE,
         blocks |-> generateBlockProof(backup, challenge.blockIndices),
         intact |-> backup = "intact" ]

\* verifyProof for a random_blocks challenge
verifyProof(challenge, proof) ==
  Cardinality(proof.blocks) = Cardinality(challenge.blockIndices)

\* observation: the proof holds, for exactly the challenged indices, the
\* hashes of the challenger's local metadata
ProofMatchesLocal(challenge, proof) ==
  /\ { b.index : b \in proof.blocks } = challenge.blockIndices
  /\ \A b \in proof.blocks : b.index < BackupFiles /\ b.hash = LocalHash(b.index)

NoProof ==
  [ seen |-> FALSE, challengeId |-> 0, threw |-> FALSE, judgedValid |-> FALSE,
    contentMatches |-> FALSE, intact |-> FALSE, successBefore |-> 0,
    successAfter |-> 0 ]

SuccessfulChallenges(rep) ==
  IF RepPeer \in DOMAIN rep THEN rep[RepPeer].successfulChallenges ELSE 0

\* handleVerificationResult without its clean-up
ResultRecorded_Mut(challengeId, success) ==
  /\ challengeHistory' =
       Last(Append(challengeHistory,
                   [challengeId |-> challengeId, success |-> success]),
            challengeHistoryCap)
  /\ reputation' = recordVerification(RepPeer, success)
  /\ activeVerifications' = activeVerifications

\* handleVerificationResult: history entry, verification_result event (its
\* handler of p2p.js 758-766 records it in the reputation), clean-up
ResultRecorded(challengeId, success) ==
  /\ challengeHistory' =
       Last(Append(challengeHistory,
                   [challengeId |-> challengeId, success |-> success]),
            challengeHistoryCap)
  /\ reputation' = recordVerification(RepPeer, success)
  /\ activeVerifications' = Remove(activeVerifications, challengeId)

SendChallenge ==
  /\ nextChallenge < MaxChallenges
  /\ \E blockIndices \in BlockIndexSets :
       LET challenge == [id |-> nextChallenge + 1, blockIndices |-> blockIndices]
       IN /\ activeVerifications' =
               Put(activeVerifications, challenge.id,
                   [challenge |-> challenge, status |-> "pending"])
          /\ toCustodian' = Append(toCustodian, challenge)
          /\ challengeTimers' = challengeTimers \cup {challenge.id}
  /\ nextChallenge' = nextChallenge + 1
  /\ UNCHANGED << custodianBackup, toChallenger, challengeHistory, lastProof,
                  reputation, exceptVerify >>

\* the custodian's handleChallenge
HandleChallenge ==
  /\ toCustodian # << >>
  /\ toChallenger' = Append(toChallenger, ProofMessage(Head(toCustodian), custodianBackup))
  /\ toCustodian' = Tail(toCustodian)
  /\ UNCHANGED << custodianBackup, nextChallenge, activeVerifications,
                  challengeTimers, challengeHistory, lastProof, reputation,
                  exceptVerify >>

\* the custodian's copy of the backup is damaged or deleted
CustodianDecays ==
  /\ custodianBackup = "intact"
  /\ custodianBackup' \in {"corrupt", "missing"}
  /\ UNCHANGED << nextChallenge, activeVerifications, challengeTimers, toCustodian,
                  toChallenger, challengeHistory, lastProof, reputation,
                  exceptVerify >>

\* a storage_proof never arrives (the channel went down)
ProofLost ==
  /\ toChallenger # << >>
  /\ toChallenger' = Tail(toChallenger)
  /\ UNCHANGED << custodianBackup, nextChallenge, activeVerifications,
                  challengeTimers, toCustodian, challengeHistory, lastProof,
                  reputation, exceptVerify >>

\* handleProof(message.challengeId, message.proof, ...): for an error response
\* message.proof is undefined and verifyProof throws on proof.error, after the
\* status was set and before handleVerificationResult
HandleProof ==
  /\ toChallenger # << >>
  /\ toChallenger' = Tail(toChallenger)
  /\ LET m == Head(toChallenger)
         id == m.challengeId
     IN IF id \notin DOMAIN activeVerifications
        THEN UNCHANGED << activeVerifications, challengeHistory, reputation,
                          lastProof >>
        ELSE IF ~m.hasProof
        THEN /\ activeVerifications' =
                  [activeVerifications EXCEPT ![id].status = "completed"]
             /\ lastProof' = [ NoProof EXCEPT !.seen = TRUE, !.challengeId = id,
                                              !.threw = TRUE ]
             /\ UNCHANGED << challengeHistory, reputation >>
        ELSE LET challenge == activeVerifications[id].challenge
                 isValid == verifyProof(challenge, m)
             IN /\ ResultRecorded(id, isValid)
                /\ lastProof' =
                     [ seen |-> TRUE, challengeId |-> id, threw |-> FALSE,
                       judgedValid |-> isValid,
                       contentMatches |-> ProofMatchesLocal(challenge, m),
                       intact |-> m.intact,
                       successBefore |-> SuccessfulChallenges(reputation),
                       successAfter |-> SuccessfulChallenges(reputation') ]
  /\ UNCHANGED << custodianBackup, nextChallenge, challengeTimers, toCustodian,
                  exceptVerify >>

\* the timeout sendChallenge sets for expiresAt
ChallengeTimeout ==
  /\ \E id \in challengeTimers :
       /\ challengeTimers' = challengeTimers \ {id}
       /\ IF id \in DOMAIN activeVerifications
             /\ activeVerifications[id].status = "pending"
          THEN ResultRecorded(id, FALSE)
          ELSE UNCHANGED << activeVerifications, challengeHistory, reputation >>
  /\ UNCHANGED << custodianBackup, nextChallenge, toCustodian, toChallenger,
                  lastProof, exceptVerify >>

VerifyInit ==
  /\ custodianBackup = "intact"
  /\ nextChallenge = 0
  /\ activeVerifications = << >>
  /\ challengeTimers = {}
  /\ toCustodian = << >>
  /\ toChallenger = << >>
  /\ challengeHistory = << >>
  /\ lastProof = NoProof

NextVerify ==
  \/ SendChallenge
  \/ HandleChallenge
  \/ CustodianDecays
  \/ ProofLost
  \/ HandleProof
  \/ ChallengeTimeout

\* the peer's history after n <= challengeHistoryCap earlier challenges, each
\* answered with a valid proof
EarlierHistory(n) == [i \in 1 .. n |-> [challengeId |-> 0, success |-> TRUE]]

\* the peer's reputation after them: the counters of n successes, and the
\* score the last recordVerification computed from the counters
EarlierReputation(n) ==
  verificationRecorded([ NoReputation EXCEPT !.totalChallenges = n - 1,
                                             !.successfulChallenges = n - 1 ], TRUE)

\* The challenger has already resolved challengeHistoryCap - 1 challenges of
\* the peer, one after the other.
EarlierChallenges ==
  /\ nextChallenge = 0
  /\ challengeHistory = << >>
  /\ RepPeer \notin DOMAIN reputation
  /\ challengeHistory' = EarlierHistory(challengeHistoryCap - 1)
  /\ reputation' = Put(reputation, RepPeer, EarlierReputation(challengeHistoryCap - 1))
  /\ UNCHANGED << custodianBackup, nextChallenge, activeVerifications,
                  challengeTimers, toCustodian, toChallenger, lastProof,
                  exceptVerify >>

\* The custodian sends the storage_proof it has just sent once more.
ProofRepeated ==
  /\ toChallenger # << >>
  /\ Len(toChallenger) <= MaxChallenges
  /\ toChallenger' = << Head(toChallenger) >> \o toChallenger
  /\ UNCHANGED << custodianBackup, nextChallenge, activeVerifications,
                  challengeTimers, toCustodian, challengeHistory, lastProof,
                  reputation, exceptVerify >>

\* SpecVerifyRace: the same as SpecVerify, with repeated proofs and a peer
\* whose history is nearly full.
NextVerifyRace ==
  \/ SendChallenge
  \/ HandleChallenge
  \/ CustodianDecays
  \/ ProofLost
  \/ HandleProof
  \/ ChallengeTimeout
  \/ EarlierChallenges
  \/ ProofRepeated

(***************************************************************************)
(* Session life cycle: P2PConnection (src/client/lib/p2p.js 12-968).       *)
(***************************************************************************)
maxReconnectAttempts == 5

reconnectDelay == 1000

\* this.reconnectDelay * Math.pow(2, this.reconnectAttempts - 1)
backoffDelay_Mut(attempt) == reconnectDelay * (2 ^ attempt)

backoffDelay(attempt) == reconnectDelay * (2 ^ (attempt - 1))

NoLoss == [seen |-> FALSE, cause |-> "", wasConnected |-> FALSE, reconnect |-> FALSE]

NothingAfterClose == [ping |-> FALSE, reconnect |-> FALSE]

\* connect(): initializeVerificationSystems, then the signaling socket
Connect ==
  /\ ~systems
  /\ closeState = "no"
  /\ systems' = TRUE
  /\ socket' = TRUE
  /\ UNCHANGED << channel, connected, currentPeerId, verifiedPeers, pendingIdentity,
                  verification, reconnectAttempts, reconnectTimers, dropsAwaiting,
                  connectAwaiting, pingInterval, closeState, reputation, lastData,
                  lastLoss, missedIntervals, scheduledDelays,
                  connectionFailed, afterClose, floodType, sessionMsgs,
                  establishments, limiterVars, transferVars, ledgerVars, engineVars >>

\* setStorageContext
SetStorageContext ==
  /\ systems
  /\ ~verification
  /\ verification' = TRUE
  /\ UNCHANGED << systems, socket, channel, connected, currentPeerId, verifiedPeers,
                  pendingIdentity, reconnectAttempts, reconnectTimers, dropsAwaiting,
                  connectAwaiting, pingInterval, closeState, reputation, lastData,
                  lastLoss, missedIntervals, scheduledDelays,
                  connectionFailed, afterClose, floodType, sessionMsgs,
                  establishments, limiterVars, transferVars, ledgerVars, engineVars >>

\* socket.on('matched'): currentPeerId from the signaling server, then
\* initializeWebRTC creates this.peer
Matched ==
  /\ socket
  /\ channel \notin {"connecting", "open"}
  /\ establishments < MaxConnects
  /\ currentPeerId' = SignalPeer
  /\ channel' = "connecting"
  /\ UNCHANGED << systems, socket, connected, verifiedPeers, pendingIdentity,
                  verification, reconnectAttempts, reconnectTimers, dropsAwaiting,
                  connectAwaiting, pingInterval, closeState, reputation, lastData,
                  lastLoss, missedIntervals, scheduledDelays,
                  connectionFailed, afterClose, floodType, sessionMsgs,
                  establishments, limiterVars, transferVars, ledgerVars, engineVars >>

\* peer.on('connect'), up to its first await
PeerConnect ==
  /\ channel = "connecting"
  /\ channel' = "open"
  /\ connected' = TRUE
  /\ reconnectAttempts' = 0
  /\ reputation' = recordConnection(currentPeerId, 0, TRUE)
  /\ connectAwaiting' = TRUE
  /\ establishments' = establishments + 1
  /\ scheduledDelays' = << >>
  /\ missedIntervals' = 0
  /\ outbox' = {}
  /\ UNCHANGED << systems, socket, currentPeerId, verifiedPeers, pendingIdentity,
                  verification, reconnectTimers, dropsAwaiting, pingInterval,
                  closeState, lastData, lastLoss, connectionFailed,
                  afterClose, floodType, sessionMsgs,
                  limiterVars, transferVars, ledgerVars, repVars, verifyVars,
                  commitmentListener, peerCommitments, lastCommitment, identityVars, retryVars, extraVars >>

\* peer.on('connect'), after its awaits: exchangePeerIdentities, startKeepalive,
\* emit 'connected', socket.disconnect()
ConnectContinue ==
  /\ connectAwaiting
  /\ connectAwaiting' = FALSE
  /\ pingInterval' = TRUE
  /\ socket' = FALSE
  /\ outbox' = IF connected /\ channel = "open"
               THEN outbox \cup {"peer_identity"} ELSE outbox
  /\ UNCHANGED << systems, channel, connected, currentPeerId, verifiedPeers,
                  pendingIdentity, verification, reconnectAttempts, reconnectTimers,
                  dropsAwaiting, closeState, reputation, lastData, lastLoss,
                  missedIntervals, scheduledDelays, connectionFailed, afterClose,
                  floodType, sessionMsgs, establishments,
                  limiterVars, transferVars, ledgerVars, repVars, verifyVars,
                  commitmentListener, peerCommitments, lastCommitment, identityVars, retryVars, extraVars >>

\* the channel fails or is destroyed; its 'close' event is not yet delivered
ChannelBreak ==
  /\ channel = "open"
  /\ channel' = "broken"
  /\ UNCHANGED << systems, socket, connected, currentPeerId, verifiedPeers,
                  pendingIdentity, verification, reconnectAttempts, reconnectTimers,
                  dropsAwaiting, connectAwaiting, pingInterval, closeState, reputation,
                  lastData, lastLoss, missedIntervals, scheduledDelays,
                  connectionFailed, afterClose, floodType, sessionMsgs,
                  establishments, limiterVars, transferVars, ledgerVars, engineVars >>

\* peer.on('close')
PeerClose ==
  /\ channel = "broken"
  /\ channel' = "closed"
  /\ connected' = FALSE
  /\ lastLoss' = [ seen |-> TRUE, cause |-> "close", wasConnected |-> connected,
                   reconnect |-> FALSE ]
  /\ UNCHANGED << systems, socket, currentPeerId, verifiedPeers, pendingIdentity,
                  verification, reconnectAttempts, reconnectTimers, dropsAwaiting,
                  connectAwaiting, pingInterval, closeState, reputation, lastData,
                  missedIntervals, scheduledDelays, connectionFailed,
                  afterClose, floodType, sessionMsgs, establishments,
                  limiterVars, transferVars, ledgerVars, engineVars >>

\* send(message): true when peer.send succeeded, false when it threw or the
\* session is not connected; nothing else changes
Send ==
  /\ channel # "none"
  /\ lastLoss' = IF connected /\ channel # "open"
                 THEN [ seen |-> TRUE, cause |-> "send", wasConnected |-> TRUE,
                        reconnect |-> FALSE ]
                 ELSE lastLoss
  /\ UNCHANGED << systems, socket, channel, connected, currentPeerId, verifiedPeers,
                  pendingIdentity, verification, reconnectAttempts, reconnectTimers,
                  dropsAwaiting, connectAwaiting, pingInterval, closeState, reputation,
                  lastData, missedIntervals, scheduledDelays, connectionFailed,
                  afterClose, floodType, sessionMsgs, establishments,
                  limiterVars, transferVars, ledgerVars, engineVars >>

\* the interval callback of startKeepalive, when sendPing's peer.send succeeds
KeepalivePing ==
  /\ pingInterval
  /\ connected
  /\ channel = "open"
  /\ missedIntervals < MaxMissed
  /\ missedIntervals' = missedIntervals + 1
  /\ afterClose' = IF closeState = "closed"
                   THEN [afterClose EXCEPT !.ping = TRUE] ELSE afterClose
  /\ UNCHANGED << systems, socket, channel, connected, currentPeerId, verifiedPeers,
                  pendingIdentity, verification, reconnectAttempts, reconnectTimers,
                  dropsAwaiting, connectAwaiting, pingInterval, closeState, reputation,
                  lastData, lastLoss, scheduledDelays, connectionFailed,
                  floodType, sessionMsgs, establishments,
                  limiterVars, transferVars, ledgerVars, engineVars >>

\* the interval callback of startKeepalive, when sendPing's peer.send throws:
\* handleConnectionDrop runs up to its await (currentPeerId and the database
\* are set whenever a keepalive or a reconnect attempt exists)
KeepaliveSendFails ==
  /\ pingInterval
  /\ connected
  /\ channel \in {"broken", "closed"}
  /\ connected' = FALSE
  /\ pingInterval' = FALSE
  /\ dropsAwaiting' = dropsAwaiting + 1
  /\ lastLoss' = [ seen |-> TRUE, cause |-> "ping", wasConnected |-> TRUE,
                   reconnect |-> TRUE ]
  /\ UNCHANGED << systems, socket, channel, currentPeerId, verifiedPeers,
                  pendingIdentity, verification, reconnectAttempts, reconnectTimers,
                  connectAwaiting, closeState, reputation, lastData, 
                  missedIntervals, scheduledDelays, connectionFailed, afterClose,
                  floodType, sessionMsgs, establishments,
                  limiterVars, transferVars, ledgerVars, engineVars >>

\* handleConnectionDrop after its await (p2p.js 295-307)
DropContinue ==
  /\ dropsAwaiting > 0
  /\ dropsAwaiting' = dropsAwaiting - 1
  /\ IF reconnectAttempts < maxReconnectAttempts
     THEN /\ reconnectAttempts' = reconnectAttempts + 1
          /\ reconnectTimers' = Append(reconnectTimers, backoffDelay(reconnectAttempts + 1))
          /\ scheduledDelays' = Append(scheduledDelays, backoffDelay(reconnectAttempts + 1))
          /\ UNCHANGED connectionFailed
     ELSE /\ connectionFailed' = TRUE
          /\ UNCHANGED << reconnectAttempts, reconnectTimers, scheduledDelays >>
  /\ UNCHANGED << systems, socket, channel, connected, currentPeerId, verifiedPeers,
                  pendingIdentity, verification, connectAwaiting, pingInterval,
                  closeState, reputation, lastData, lastLoss,
                  missedIntervals, afterClose, floodType, sessionMsgs,
                  establishments, limiterVars, transferVars, ledgerVars, engineVars >>

\* a sequence without its i-th element
RemoveAt(seq, i) == SubSeq(seq, 1, i - 1) \o SubSeq(seq, i + 1, Len(seq))

\* the setTimeout of handleConnectionDrop runs attemptReconnection, which
\* fails: its catch calls handleConnectionDrop
ReconnectFails ==
  /\ \E i \in DOMAIN reconnectTimers : reconnectTimers' = RemoveAt(reconnectTimers, i)
  /\ connected' = FALSE
  /\ pingInterval' = FALSE
  /\ dropsAwaiting' = dropsAwaiting + 1
  /\ afterClose' = IF closeState = "closed"
                   THEN [afterClose EXCEPT !.reconnect = TRUE] ELSE afterClose
  /\ UNCHANGED << systems, socket, channel, currentPeerId, verifiedPeers,
                  pendingIdentity, verification, reconnectAttempts, connectAwaiting,
                  closeState, reputation, lastData, lastLoss,
                  missedIntervals, scheduledDelays, connectionFailed, floodType,
                  sessionMsgs, establishments, limiterVars, transferVars, ledgerVars, engineVars >>

\* the setTimeout of handleConnectionDrop runs attemptReconnection, whose
\* connect() resolves: the signaling socket is connected again
ReconnectResolves ==
  /\ \E i \in DOMAIN reconnectTimers : reconnectTimers' = RemoveAt(reconnectTimers, i)
  /\ systems' = TRUE
  /\ socket' = TRUE
  /\ afterClose' = IF closeState = "closed"
                   THEN [afterClose EXCEPT !.reconnect = TRUE] ELSE afterClose
  /\ UNCHANGED << channel, connected, currentPeerId, verifiedPeers, pendingIdentity,
                  verification, reconnectAttempts, dropsAwaiting, connectAwaiting,
                  pingInterval, closeState, reputation, lastData, lastLoss,
                  missedIntervals, scheduledDelays, connectionFailed, floodType,
                  sessionMsgs, establishments, limiterVars, transferVars, ledgerVars, engineVars >>

\* close() up to its await: stopKeepalive, peer.destroy(), socket.disconnect()
CloseStart ==
  /\ systems
  /\ closeState = "no"
  /\ closeState' = "closing"
  /\ pingInterval' = FALSE
  /\ channel' = IF channel \in {"connecting", "open"} THEN "broken" ELSE channel
  /\ socket' = FALSE
  /\ UNCHANGED << systems, connected, currentPeerId, verifiedPeers, pendingIdentity,
                  verification, reconnectAttempts, reconnectTimers, dropsAwaiting,
                  connectAwaiting, reputation, lastData, lastLoss,
                  missedIntervals, scheduledDelays, connectionFailed, afterClose,
                  floodType, sessionMsgs, establishments,
                  limiterVars, transferVars, ledgerVars, engineVars >>

\* close() after await this.database.close()
CloseFinish ==
  /\ closeState = "closing"
  /\ closeState' = "closed"
  /\ connected' = FALSE
  /\ UNCHANGED << systems, socket, channel, currentPeerId, verifiedPeers,
                  pendingIdentity, verification, reconnectAttempts, reconnectTimers,
                  dropsAwaiting, connectAwaiting, pingInterval, reputation, lastData,
                  lastLoss, missedIntervals, scheduledDelays,
                  connectionFailed, afterClose, floodType, sessionMsgs,
                  establishments, limiterVars, transferVars, ledgerVars, engineVars >>

(***************************************************************************)
(* Commitment exchange: StorageVerification.verifyCommitment and           *)
(* exchangeCommitments (src/client/lib/verification.js 71-171) behind the  *)
(* dispatcher.  storageOffered is counted in MiB.                          *)
(***************************************************************************)
minCommitmentMiB == 1

maxCommitmentMiB == 1048576

\* verifyCommitment: signature, key, expiry and the two storage bounds
verifyCommitment(commitment) ==
  /\ commitment.signatureValid
  /\ commitment.keyMatches
  /\ ~commitment.expired
  /\ commitment.storageOffered >= minCommitmentMiB
  /\ commitment.storageOffered <= maxCommitmentMiB

GoodCommitment ==
  [ signatureValid |-> TRUE, keyMatches |-> TRUE, expired |-> FALSE,
    storageOffered |-> 1024 ]

\* the commitments a remote peer may send
Commitments ==
  { GoodCommitment,
    [GoodCommitment EXCEPT !.signatureValid = FALSE],
    [GoodCommitment EXCEPT !.expired = TRUE],
    [GoodCommitment EXCEPT !.storageOffered = 0] }

NoCommitment ==
  [ seen |-> FALSE, commitment |-> GoodCommitment, verified |-> FALSE,
    cached |-> FALSE ]

\* exchangeCommitments(connection, offering): sends the own commitment (send
\* refuses while not connected) and listens for the peer's on 'message'
ExchangeCommitments ==
  /\ verification
  /\ ~commitmentListener
  /\ commitmentListener' = TRUE
  /\ outbox' = IF connected /\ channel = "open"
               THEN outbox \cup {"storage_commitment"} ELSE outbox
  /\ UNCHANGED << peerCommitments, lastCommitment, reputation, exceptCommit >>

\* a storage_commitment of the remote peer arrives: handleVerificationMessage
\* only logs it, then 'message' is emitted; a listener of exchangeCommitments
\* removes itself, verifies the commitment and stores a valid one
CommitmentData ==
  /\ channel = "open"
  /\ sessionMsgs < MaxSessionMsgs
  /\ sessionMsgs' = sessionMsgs + 1
  /\ \E commitment \in Commitments :
       /\ OnData([type |-> "storage_commitment", valid |-> TRUE])
       /\ LET heard == lastData'.routed = "message" /\ commitmentListener
              cached == heard /\ verifyCommitment(commitment)
          IN /\ commitmentListener' = (commitmentListener /\ ~heard)
             /\ peerCommitments' = IF cached THEN peerCommitments \cup {commitment}
                                   ELSE peerCommitments
             /\ lastCommitment' = [ seen |-> TRUE, commitment |-> commitment,
                                    verified |-> heard, cached |-> cached ]
  /\ UNCHANGED << now, systems, socket, channel, connected, currentPeerId,
                  verification, reconnectAttempts, reconnectTimers, dropsAwaiting,
                  connectAwaiting, pingInterval, closeState, reputation,
                  lastLoss, scheduledDelays, connectionFailed, afterClose,
                  floodType, establishments, outbox, transferVars, ledgerVars,
                  repVars, verifyVars, identityVars, retryVars, extraVars >>

CommitInit ==
  /\ outbox = {}
  /\ commitmentListener = FALSE
  /\ peerCommitments = {}
  /\ lastCommitment = NoCommitment

(***************************************************************************)
(* Identity: BackupCrypto.generatePeerIdHash, signPeerIdHash and           *)
(* verifyPeerIdHash (src/client/lib/p2p.js 1094-1156).  A signature is the *)
(* pair of the signing key and the signed message; it verifies under the   *)
(* public key of that key pair for that message only.                      *)
(***************************************************************************)
maxIdentityAge == 3600000

SigningKeys == {1, 2}

\* hex(SHA-256(publicKey)).slice(0, 16)
generatePeerIdHash(publicKey) == Sha256(<< publicKey >>)

\* sodium.crypto_sign_verify_detached(sig, message, pubKey)
SignatureVerifies(signature, message, publicKey) ==
  signature.key = publicKey /\ signature.message = message

\* the timestamp field of a received identity: a number, or absent from the
\* JSON object (undefined, for which Date.now() - timestamp is NaN and every
\* comparison is false)
Timestamps ==
  { [present |-> TRUE, value |-> VerifyTime - maxIdentityAge - 1],
    [present |-> TRUE, value |-> VerifyTime - maxIdentityAge],
    [present |-> TRUE, value |-> VerifyTime],
    [present |-> TRUE, value |-> VerifyTime + 1000],
    [present |-> FALSE, value |-> 0] }

SignedIdentities ==
  [ peerIdHash : { generatePeerIdHash(k) : k \in SigningKeys },
    signature : [ key : SigningKeys,
                  message : { generatePeerIdHash(k) : k \in SigningKeys } ],
    publicKey : SigningKeys,
    timestamp : Timestamps,
    version : {"1.0", "2.0"} ]

verifyPeerIdHash(signedHash, t) ==
  IF signedHash.version # "1.0" THEN FALSE
  ELSE IF signedHash.timestamp.present
          /\ t - signedHash.timestamp.value > maxIdentityAge THEN FALSE
  ELSE /\ SignatureVerifies(signedHash.signature, signedHash.peerIdHash,
                            signedHash.publicKey)
       /\ generatePeerIdHash(signedHash.publicKey) = signedHash.peerIdHash

NoIdentity == [ seen |-> FALSE ]

VerifyPeerIdHash ==
  /\ \E signedHash \in SignedIdentities :
       lastIdentity' = [ seen |-> TRUE, identity |-> signedHash, at |-> VerifyTime,
                         valid |-> verifyPeerIdHash(signedHash, VerifyTime) ]
  /\ UNCHANGED << repVars, verifyVars, commitVars, retryVars, extraVars, limiterVars,
                  sessionVars, transferVars, ledgerVars >>

IdentityInit == lastIdentity = NoIdentity

NextIdentity == VerifyPeerIdHash

(***************************************************************************)
(* Encrypted store (class DatabaseEncryption, src/unnamed/part_004, and    *)
(* the peers and cached_peer_connections tables of database.js).           *)
(***************************************************************************)
MasterKeys == {1, 2}

StoredPeers == {"p1", "p2"}

\* a column that holds no value (null)
NoValue == [kind |-> "null"]

Plain(value) == [kind |-> "plain", value |-> value]

\* encrypt, then JSON.stringify of the package: the column holds ciphertext
\* made under the master key of the moment
dbEncrypt(data) == [kind |-> "cipher", key |-> masterKey, value |-> data.value]

IsCiphertext(column) == column.kind = "cipher"

\* JSON.parse of the column, then decrypt: throws for a column that is not a
\* package and for a package made under another master key
dbDecryptThrows(column) == column.kind # "cipher" \/ column.key # masterKey

dbDecrypt(column) == Plain(column.value)

sensitiveFields == [peers |-> {"public_key", "metadata"},
                    cached_peer_connections |-> {"public_key", "ice_data", "metadata"}]

encryptRecord(tableName, record) ==
  [f \in DOMAIN record |->
     IF f \in sensitiveFields[tableName] /\ record[f] # NoValue
     THEN dbEncrypt(record[f]) ELSE record[f]]

\* a field whose decryption throws is left as it is in the record
decryptRecord(tableName, record) ==
  [f \in DOMAIN record |->
     IF f \in sensitiveFields[tableName] /\ record[f] # NoValue
        /\ ~dbDecryptThrows(record[f])
     THEN dbDecrypt(record[f]) ELSE record[f]]

NoRead == [op |-> "none", failed |-> FALSE, rows |-> {}]

PeerRecords ==
  [public_key : {NoValue, Plain(1), Plain(2)}, metadata : {Plain("meta")}]

CachedRecords ==
  [public_key : {Plain(1), Plain(2)}, ice_data : {Plain("ice")},
   metadata : {Plain("meta")}]

exceptStore ==
  << transferVars, ledgerVars, limiterVars, sessionVars, repVars, verifyVars,
     commitVars, identityVars, retryVars, cryptoVars, brokerVars,
     handshakeVars >>

\* savePeer: the record is encrypted, then written (INSERT OR REPLACE).
SavePeer ==
  /\ storeOps < MaxStoreOps
  /\ \E peerId \in StoredPeers, peerRecord \in PeerRecords :
       peersTable' = Put(peersTable, peerId, encryptRecord("peers", peerRecord))
  /\ storeOps' = storeOps + 1
  /\ UNCHANGED << masterKey, cachedPeerConnections, lastRead, exceptStore >>

\* getPeer: null without a row, otherwise the row after decryptRecord.
GetPeer ==
  /\ \E peerId \in StoredPeers :
       lastRead' = [op |-> "getPeer", failed |-> FALSE,
                    rows |-> IF peerId \in DOMAIN peersTable
                             THEN {decryptRecord("peers", peersTable[peerId])}
                             ELSE {}]
  /\ UNCHANGED << masterKey, peersTable, cachedPeerConnections, storeOps, exceptStore >>

\* listPeers: the rows as the query returns them.
ListPeers ==
  /\ lastRead' = [op |-> "listPeers", failed |-> FALSE,
                  rows |-> {peersTable[p] : p \in DOMAIN peersTable}]
  /\ UNCHANGED << masterKey, peersTable, cachedPeerConnections, storeOps, exceptStore >>

\* cachePeerConnection: the parameters are bound as they are given.
CachePeerConnection ==
  /\ storeOps < MaxStoreOps
  /\ \E peerIdHash \in StoredPeers, peerConnectionData \in CachedRecords :
       cachedPeerConnections' = Put(cachedPeerConnections, peerIdHash, peerConnectionData)
  /\ storeOps' = storeOps + 1
  /\ UNCHANGED << masterKey, peersTable, lastRead, exceptStore >>

\* getCachedPeers: the rows as the query returns them, metadata parsed.
GetCachedPeers ==
  /\ lastRead' = [op |-> "getCachedPeers", failed |-> FALSE,
                  rows |-> {cachedPeerConnections[p] : p \in DOMAIN cachedPeerConnections}]
  /\ UNCHANGED << masterKey, peersTable, cachedPeerConnections, storeOps, exceptStore >>

\* The process is restarted on a system whose host name, platform or user
\* name has changed: deriveMasterKey yields another key.
MasterKeyChanges ==
  /\ storeOps < MaxStoreOps
  /\ \E k \in MasterKeys \ {masterKey} : masterKey' = k
  /\ storeOps' = storeOps + 1
  /\ UNCHANGED << peersTable, cachedPeerConnections, lastRead, exceptStore >>

StoreInit ==
  /\ masterKey = 1
  /\ peersTable = << >>
  /\ cachedPeerConnections = << >>
  /\ lastRead = NoRead
  /\ storeOps = 0

NextStore ==
  \/ SavePeer
  \/ GetPeer
  \/ ListPeers
  \/ CachePeerConnection
  \/ GetCachedPeers
  \/ MasterKeyChanges

(***************************************************************************)
(* Shared secrets of BackupCrypto (src/client/lib/p2p.js 1081-1091,        *)
(* 1265-1302) as the transfer pipeline of a session uses them.             *)
(***************************************************************************)
NoCrypt == [seen |-> FALSE, op |-> "", peerId |-> NoPeer, handshaken |-> FALSE,
            found |-> FALSE]

\* encrypt / decrypt look the shared secret up under the peer id they are given
Crypted(op, peerId) ==
  [seen |-> TRUE, op |-> op, peerId |-> peerId,
   handshaken |-> peerId = IdentityHash /\ peerId \in verifiedPeers,
   found |-> peerId \in sharedSecrets]

exceptCrypto ==
  << transferVars, ledgerVars, repVars, verifyVars, commitVars, identityVars,
     retryVars, storeVars, brokerVars, handshakeVars >>

\* The 'matched' listener of the restore command: generateSharedSecret with
\* the peer id of the signaling server's event.  (The backup command and the
\* session itself register no such listener.)
MatchedListener ==
  /\ currentPeerId # NoPeer
  /\ SignalPeer \notin sharedSecrets
  /\ sharedSecrets' = sharedSecrets \cup {SignalPeer}
  /\ UNCHANGED << lastCrypt, limiterVars, sessionVars, exceptCrypto >>

\* P2PConnection.sendFile: fileTransfer.sendFile(filePath, this.currentPeerId),
\* whose 'data' handler encrypts the chunk for that peer id.
EncryptChunk ==
  /\ systems
  /\ connected
  /\ channel = "open"
  /\ currentPeerId # NoPeer
  /\ lastCrypt' = Crypted("encrypt", currentPeerId)
  /\ UNCHANGED << sharedSecrets, limiterVars, sessionVars, exceptCrypto >>

\* An inbound file_chunk: the dispatcher hands it to handleTransferMessage
\* with senderId, and handleFileChunk decrypts it for that peer id.
ChunkData ==
  /\ channel = "open"
  /\ sessionMsgs < MaxSessionMsgs
  /\ sessionMsgs' = sessionMsgs + 1
  /\ OnData([type |-> "file_chunk", valid |-> TRUE])
  /\ lastCrypt' = IF lastData'.routed = "transfer"
                  THEN Crypted("decrypt", SenderId) ELSE lastCrypt
  /\ UNCHANGED << now, systems, socket, channel, connected, currentPeerId,
                  verification, reconnectAttempts, reconnectTimers, dropsAwaiting,
                  connectAwaiting, pingInterval, closeState, reputation,
                  lastLoss, scheduledDelays, connectionFailed, afterClose,
                  floodType, establishments, sharedSecrets, exceptCrypto >>

CryptoInit ==
  /\ sharedSecrets = {}
  /\ lastCrypt = NoCrypt

\* SpecSecrets: the handshake of a session, the application's listener and
\* the chunks the pipeline encrypts and decrypts.
NextSecrets ==
  \/ Connect
  \/ Matched
  \/ PeerConnect
  \/ ConnectContinue
  \/ SessionData
  \/ IdentityCached
  \/ MatchedListener
  \/ EncryptChunk
  \/ ChunkData

(***************************************************************************)
(* Signaling broker (src/broker/index.js 103-255) with one host, its slot, *)
(* and the requesters that ask for it.  The host runs the client's         *)
(* 'connection-request' handler, which accepts every request.              *)
(***************************************************************************)
HostPeer == "host"

Requesters == {"r1", "r2"}

exceptBroker ==
  << transferVars, ledgerVars, limiterVars, sessionVars, repVars, verifyVars,
     commitVars, identityVars, retryVars, storeVars, cryptoVars, handshakeVars >>

\* socket.on('host-slot'): the slot is stored as available
HostSlot ==
  /\ brokerEvents < MaxBrokerEvents
  /\ brokerEvents' = brokerEvents + 1
  /\ hostedSlots' = Put(hostedSlots, HostPeer, [status |-> "available", connectedTo |-> ""])
  /\ peerMatched' = << >>
  /\ UNCHANGED << peerConnections, connectionRequests, acceptances, exceptBroker >>

\* socket.on('connect-to-peer') for the host's slot: refused unless the slot
\* exists and is available; otherwise the host is notified and the request
\* is stored as pending.
ConnectToPeer ==
  /\ brokerEvents < MaxBrokerEvents
  /\ brokerEvents' = brokerEvents + 1
  /\ \E requesterPeerId \in Requesters :
       IF HostPeer \in DOMAIN hostedSlots /\ hostedSlots[HostPeer].status = "available"
       THEN /\ connectionRequests' = Append(connectionRequests, requesterPeerId)
            /\ peerConnections' = Put(peerConnections, requesterPeerId,
                                      [status |-> "pending", hostPeerId |-> ""])
       ELSE UNCHANGED << connectionRequests, peerConnections >>
  /\ UNCHANGED << hostedSlots, acceptances, peerMatched, exceptBroker >>

\* the host's socket.on('connection-request'): accept-connection for the
\* requester, always with accept: true
ConnectionRequest ==
  /\ connectionRequests # << >>
  /\ acceptances' = Append(acceptances, Head(connectionRequests))
  /\ connectionRequests' = Tail(connectionRequests)
  /\ UNCHANGED << hostedSlots, peerConnections, peerMatched, brokerEvents,
                  exceptBroker >>

\* socket.on('accept-connection') with accept: true: an error unless a
\* pending request of the requester is found; otherwise the slot is marked
\* in use and peer-matched goes to the host and to the requester.
AcceptConnection ==
  /\ acceptances # << >>
  /\ acceptances' = Tail(acceptances)
  /\ LET requesterPeerId == Head(acceptances)
         pending == /\ requesterPeerId \in DOMAIN peerConnections
                    /\ peerConnections[requesterPeerId].status = "pending"
     IN IF pending
        THEN /\ hostedSlots' =
                  IF HostPeer \in DOMAIN hostedSlots
                  THEN Put(hostedSlots, HostPeer,
                           [status |-> "in-use", connectedTo |-> requesterPeerId])
                  ELSE hostedSlots
             /\ peerMatched' = Append(peerMatched, requesterPeerId)
             /\ peerConnections' = Put(peerConnections, requesterPeerId,
                                       [status |-> "accepted", hostPeerId |-> HostPeer])
        ELSE UNCHANGED << hostedSlots, peerMatched, peerConnections >>
  /\ UNCHANGED << connectionRequests, brokerEvents, exceptBroker >>

BrokerInit ==
  /\ hostedSlots = << >>
  /\ peerConnections = << >>
  /\ connectionRequests = << >>
  /\ acceptances = << >>
  /\ peerMatched = << >>
  /\ brokerEvents = 0

NextBroker ==
  \/ HostSlot
  \/ ConnectToPeer
  \/ ConnectionRequest
  \/ AcceptConnection

(***************************************************************************)
(* Identity handshake between two honest peers: the sender signs its       *)
(* identity once, in initializeVerificationSystems (p2p.js 74-103), and    *)
(* sends that object in exchangePeerIdentities (806-821) whenever a channel*)
(* is established while its slot lasts; the receiver verifies it on        *)
(* receipt (handlePeerIdentityMessage 648-670).                            *)
(***************************************************************************)
slotDuration == 7200000

\* createPeerIdentity: signPeerIdHash of the own hash with the own key,
\* timestamp: Date.now()
createPeerIdentity(key, t) ==
  [ peerIdHash |-> generatePeerIdHash(key),
    signature |-> [ key |-> key, message |-> generatePeerIdHash(key) ],
    publicKey |-> key,
    timestamp |-> [ present |-> TRUE, value |-> t ],
    version |-> "1.0" ]

NoHandshake == [ seen |-> FALSE ]

exceptHandshake ==
  << transferVars, ledgerVars, limiterVars, sessionVars, repVars, verifyVars,
     commitVars, identityVars, retryVars, storeVars, cryptoVars, brokerVars >>

\* time passes on the wall clock of both peers
WallClockAdvances ==
  /\ wallClock + ClockStep <= MaxTicks * ClockStep
  /\ wallClock' = wallClock + ClockStep
  /\ UNCHANGED << peerIdentity, slotExpires, lastHandshake, exceptHandshake >>

\* connect(): initializeVerificationSystems, then the slot is hosted for the
\* default duration
InitializeVerificationSystems ==
  /\ ~peerIdentity.seen
  /\ \E key \in SigningKeys :
       peerIdentity' = [ seen |-> TRUE, identity |-> createPeerIdentity(key, wallClock) ]
  /\ slotExpires' = wallClock + slotDuration
  /\ UNCHANGED << wallClock, lastHandshake, exceptHandshake >>

\* a channel is established while the slot lasts: the sender's
\* exchangePeerIdentities and the receiver's verifyPeerIdentity
ExchangePeerIdentities ==
  /\ peerIdentity.seen
  /\ wallClock <= slotExpires
  /\ lastHandshake' =
       [ seen |-> TRUE, at |-> wallClock, signedAt |-> peerIdentity.identity.timestamp.value,
         verified |-> verifyPeerIdHash(peerIdentity.identity, wallClock) ]
  /\ UNCHANGED << wallClock, peerIdentity, slotExpires, exceptHandshake >>

\* the sender's process ends; a later run initializes again
SenderRestarts ==
  /\ peerIdentity.seen
  /\ peerIdentity' = NoHandshake
  /\ slotExpires' = 0
  /\ UNCHANGED << wallClock, lastHandshake, exceptHandshake >>

HandshakeInit ==
  /\ wallClock = 0
  /\ peerIdentity = NoHandshake
  /\ slotExpires = 0
  /\ lastHandshake = NoHandshake

NextHandshakeAge ==
  \/ WallClockAdvances
  \/ InitializeVerificationSystems
  \/ ExchangePeerIdentities
  \/ SenderRestarts

LimiterInit ==
  /\ now = 0
  /\ requests = << >>
  /\ bursts = << >>
  /\ bannedPeers = << >>
  /\ unbanTimers = {}
  /\ banLog = << >>

SessionInit ==
  /\ systems = FALSE
  /\ socket = FALSE
  /\ channel = "none"
  /\ connected = FALSE
  /\ currentPeerId = NoPeer
  /\ verifiedPeers = {}
  /\ pendingIdentity = {}
  /\ verification = FALSE
  /\ reconnectAttempts = 0
  /\ reconnectTimers = << >>
  /\ dropsAwaiting = 0
  /\ connectAwaiting = FALSE
  /\ pingInterval = FALSE
  /\ closeState = "no"
  /\ reputation = << >>
  /\ lastData = NoData
  /\ lastLoss = NoLoss
  /\ missedIntervals = 0
  /\ scheduledDelays = << >>
  /\ connectionFailed = FALSE
  /\ afterClose = NothingAfterClose
  /\ floodType = NoFlood
  /\ sessionMsgs = 0
  /\ establishments = 0

NextLimiter ==
  \/ Connect
  \/ Matched
  \/ PeerConnect
  \/ ConnectContinue
  \/ PeerFlood
  \/ IdentityCached
  \/ Advance
  \/ Cleanup
  \/ UnbanTimer

\* SpecLimiterKey: the limiter under a peer that floods pong messages and
\* identifies itself in the middle of its flood.  A ban of this peer starts
\* after 4 s at the earliest, so no unban timer comes due before MaxClock.
NextLimiterKey ==
  \/ Connect
  \/ Matched
  \/ PeerConnect
  \/ ConnectContinue
  \/ PongFlood
  \/ PeerIdentifies
  \/ IdentityCached
  \/ Advance
  \/ Cleanup

NextHandshake ==
  \/ Connect
  \/ SetStorageContext
  \/ Matched
  \/ PeerConnect
  \/ ConnectContinue
  \/ SessionData
  \/ IdentityCached

\* SpecFrames: the handshake, with frames that cannot be decoded.
NextFrames ==
  \/ Connect
  \/ SetStorageContext
  \/ Matched
  \/ PeerConnect
  \/ ConnectContinue
  \/ SessionData
  \/ IdentityCached
  \/ MalformedData

NextCommit ==
  \/ Connect
  \/ SetStorageContext
  \/ Matched
  \/ PeerConnect
  \/ ConnectContinue
  \/ ExchangeCommitments
  \/ CommitmentData

NextSession ==
  \/ Connect
  \/ Matched
  \/ PeerConnect
  \/ ConnectContinue
  \/ PeerPong
  \/ Send
  \/ ChannelBreak
  \/ PeerClose
  \/ KeepalivePing
  \/ KeepaliveSendFails
  \/ DropContinue
  \/ ReconnectFails
  \/ ReconnectResolves
  \/ CloseStart
  \/ CloseFinish

(***************************************************************************)
(* Specifications.                                                         *)
(***************************************************************************)
Init ==
  /\ TransferInit /\ LedgerInit /\ LimiterInit /\ SessionInit
  /\ ReputationInit /\ VerifyInit /\ CommitInit /\ IdentityInit
  /\ RetryInit /\ StoreInit /\ CryptoInit /\ BrokerInit /\ HandshakeInit

Spec == Init /\ [][Next]_vars

SpecUntrusted == Init /\ [][NextUntrusted]_vars

SpecResume == Init /\ [][NextResume]_vars

SpecLedger == Init /\ [][NextLedger]_vars

SpecLimiter == Init /\ [][NextLimiter]_vars

SpecHandshake == Init /\ [][NextHandshake]_vars

SpecSession == Init /\ [][NextSession]_vars

SpecReputation == Init /\ [][NextReputation]_vars

SpecVerify == Init /\ [][NextVerify]_vars

SpecCommit == Init /\ [][NextCommit]_vars

SpecIdentity == Init /\ [][NextIdentity]_vars

SpecRetry == Init /\ [][NextRetry]_vars

SpecStore == Init /\ [][NextStore]_vars

SpecFrames == Init /\ [][NextFrames]_vars

SpecVerifyRace == Init /\ [][NextVerifyRace]_vars

SpecSecrets == Init /\ [][NextSecrets]_vars

SpecLimiterKey == Init /\ [][NextLimiterKey]_vars

SpecBroker == Init /\ [][NextBroker]_vars

SpecHandshakeAge == Init /\ [][NextHandshakeAge]_vars

(***************************************************************************)
(* Claims about the transfer pipeline.                                     *)
(***************************************************************************)
ChunkVerified(m) ==
  /\ decryptOk(fromBase64(m.encryptedData))
  /\ Sha256(fromBase64(m.encryptedData).pt) = m.hash

\* C1: the receiver answers a file_chunk with chunk_ack(received) only if the
\* chunk decrypted and the SHA-256 of the plaintext is the claimed chunk hash;
\* on a decryption failure, a hash mismatch or an unknown transfer it answers
\* chunk_ack(error) and stores nothing.
C1_AckOnlyVerifiedChunk ==
  lastChunkRx.seen =>
    /\ lastChunkRx.ack = "received" => ChunkVerified(lastChunkRx.msg)
    /\ (~ChunkVerified(lastChunkRx.msg) \/ ~lastChunkRx.known) =>
         (lastChunkRx.ack = "error" /\ ~lastChunkRx.stored)

\* C1 witness: a chunk that decrypts, of a started transfer, whose claimed
\* hash is not the hash of its content, has been handled and refused.
C1_Witness ==
  /\ lastChunkRx.seen
  /\ lastChunkRx.known
  /\ decryptOk(fromBase64(lastChunkRx.msg.encryptedData))
  /\ ~ChunkVerified(lastChunkRx.msg)
  /\ lastChunkRx.ack = "error"

CompleteOnWire == \E i \in 1 .. Len(wire) : wire[i].type = "file_complete"

ChunksOnWire == {i \in 1 .. Len(wire) : wire[i].type = "file_chunk"}

\* the chunk sendFile started from, as announced in file_start
WireResumeFrom == wire[1].chunkIndex

RECURSIVE ChunkMessages(_, _)
ChunkMessages(tid, from) ==
  IF from >= FileChunks THEN << >>
  ELSE << FileChunkMsg(tid, from, << srcFile[from] >>, hashData(<< srcFile[from] >>)) >>
       \o ChunkMessages(tid, from + 1)

ExpectedWire ==
  << FileStartMsg(wire[1].transferId, FileChunks, hashFile(srcFile), WireResumeFrom) >>
  \o ChunkMessages(wire[1].transferId, WireResumeFrom)
  \o << FileCompleteMsg(wire[1].transferId, FileChunks, hashFile(srcFile)) >>

SendFileFinished == wire # << >> /\ ~stream.open /\ pendingHandlers = {}

\* C3: what sendFile puts on the channel is file_start, then one file_chunk
\* per index r..n-1 in increasing order with that chunk's data and hash, then
\* file_complete: at every moment a prefix of that sequence, at the end all of it.
C3_WireOrder ==
  wire # << >> =>
    /\ Len(wire) <= Len(ExpectedWire)
    /\ wire = SubSeq(ExpectedWire, 1, Len(wire))
    /\ SendFileFinished => wire = ExpectedWire

PrefixCompleted ==
  \E k \in 1 .. FileChunks : resumeLog.completed = 0 .. (k - 1)

RECURSIVE Range(_, _)
Range(from, to) == IF from > to THEN << >> ELSE << from >> \o Range(from + 1, to)

WireChunkIndices == [i \in 1 .. Cardinality(ChunksOnWire) |-> wire[i + 1].chunkIndex]

\* C4: when the sender restarts with chunks 0..k-1 completed and the others
\* not, the incomplete-chunks query returns k..n-1 in order and resumeTransfer
\* sends exactly those chunks again.
C4_ResumeExactlyIncomplete ==
  (resumeLog.crash = crashes /\ crashes > 0 /\ PrefixCompleted) =>
    LET k == Cardinality(resumeLog.completed)
    IN /\ resumeLog.incomplete = Range(k, FileChunks - 1)
       /\ SendFileFinished => WireChunkIndices = Range(k, FileChunks - 1)

ResumeDelivered ==
  /\ crashes > 0
  /\ resumeLog.crash = crashes
  /\ resumeLog.started
  /\ SendFileFinished
  /\ toReceiver = << >>

\* C5: once a resumed transfer (chunks 0..k-1 completed before, k >= 1, the
\* chunks k..n-1 reported incomplete) has been sent in order and delivered, the
\* receiver holds the whole file with the sender's SHA-256 and has answered
\* file_complete_ack(success).
C5_ResumeDeliversFile ==
  (/\ ResumeDelivered
   /\ PrefixCompleted
   /\ resumeLog.incomplete = Range(Cardinality(resumeLog.completed), FileChunks - 1)
   /\ wire = ExpectedWire) =>
    /\ FileName \in DOMAIN receivedTree
    /\ Sha256(receivedTree[FileName]) = hashFile(srcFile)
    /\ lastCompleteRx.transferId = wire[1].transferId
    /\ lastCompleteRx.ack = "success"

\* C6: after a file_complete whose reassembled file does not have the expected
\* SHA-256, the transfer is in status error, file_complete_ack(error) was sent
\* and the received tree holds no file of that transfer.
C6_MismatchDiscardsFile ==
  (lastCompleteRx.seen /\ lastCompleteRx.mismatch) =>
    /\ lastCompleteRx.ack = "error"
    /\ rcvActiveTransfers[lastCompleteRx.transferId].status = "error"
    /\ FileName \notin DOMAIN receivedTree

(***************************************************************************)
(* Claims about the allocation ledger.                                     *)
(***************************************************************************)
\* C7: in every reachable state of the ledger, storageUsed <= storageOffered.
C7_UsedWithinOffered == storageUsed <= storageOffered

\* C8: in every reachable state of the ledger, the global storageOffered and
\* storageUsed are the sums of the per-peer offered and used amounts
\* (validateAllocation reports no mismatch).
C8_SumsReconcile ==
  ~validateAllocation.offeredMismatch /\ ~validateAllocation.usedMismatch

C10_OneMoreByteRefused ==
  (lastAccept.called /\ lastAccept.requestedBytes = 1
     /\ storageOffered < maxStorageOffered) =>
    /\ storageUsed = storageOffered =>
         (~lastAccept.canAccept /\ lastAccept.reason = RatioViolation)
    /\ storageUsed < storageOffered => lastAccept.canAccept

(***************************************************************************)
(* Claims about the rate limiter and the inbound dispatcher.               *)
(***************************************************************************)
\* C11: while a ban of the sending peer is running (from banPeer until the ban
\* duration has elapsed), every message received from that peer is dropped:
\* it reaches none of the ping/pong, peer_identity, transfer or verification
\* handlers.
C11_BannedPeerDropped ==
  (lastData.seen /\ lastData.banned) => lastData.routed = "dropped"

\* C12: a file_chunk message that arrives while the burst window is not full
\* is admitted when fewer than 200 file_chunk messages of the peer were
\* admitted in the last 60 s, whatever the coarse window holds, and is denied
\* with reason message_type_limit otherwise.
C12_TypeCapOverridesWindow ==
  (lastData.seen /\ lastData.type = "file_chunk" /\ lastData.burstRecent < 20) =>
    IF lastData.typeRecent < 200
    THEN lastData.reason = "allowed"
    ELSE lastData.reason = "message_type_limit"

\* C13: for a message type without a per-type cap, arriving while the burst
\* window is not full: the request is admitted exactly when fewer than 100
\* admitted requests of the peer lie less than 60 s back (so the first 100 in
\* a window pass, the next is denied, and a request passes again once the
\* earliest counted request is 60 s old), and a denial names the window limit.
C13_WindowLimit ==
  (lastData.seen /\ lastData.type = "pong" /\ lastData.burstRecent < 20) =>
    IF lastData.windowRecent < 100
    THEN lastData.reason = "allowed"
    ELSE lastData.reason = "window_limit"

\* C13 witness: after the window was full and a request was denied, a request
\* arriving when the earliest counted requests have left the window is the
\* 100th of its window and is admitted.
C13_Witness ==
  /\ lastData.seen /\ lastData.type = "pong" /\ lastData.reason = "allowed"
  /\ lastData.at >= 60000
  /\ lastData.windowRecent = 99
  /\ lastData.senderId \in DOMAIN banLog

\* C14: an isAllowed call that returns false leaves the coarse, burst and
\* per-message-type timestamp lists as they were, whichever check denied.
C14_RejectionKeepsCounters ==
  (lastData.seen /\ lastData.reason # "allowed") => ~lastData.mutated

\* C14 witness: a request denied by the per-message-type check, the last of
\* the three checks, after the burst and window checks passed.
C14_Witness ==
  /\ lastData.seen /\ lastData.reason = "message_type_limit"
  /\ lastData.typeRecent > 0

(***************************************************************************)
(* Claims about the session.                                               *)
(***************************************************************************)
\* C15: a file-transfer or storage-verification message is routed to its
\* handler only when the peer it is attributed to is one whose peer_identity
\* has been verified on this session.
C15_RoutedOnlyAfterIdentity ==
  (lastData.seen /\ lastData.routed \in {"transfer", "verification"}) =>
    (lastData.verified /\ lastData.senderId = IdentityHash)

\* C16: when the remote peer's identity fails verification, the session is
\* closed (channel torn down, connected false) and a failed connection is
\* recorded for the peer in the reputation engine.
C16_BadIdentityClosesSession ==
  (lastData.seen /\ lastData.identityFailed) =>
    /\ ~connected
    /\ channel # "open"
    /\ \E peerId \in DOMAIN reputation : reputation[peerId].failedConnections > 0

\* C17: a connected session has not gone more than two keepalive intervals
\* without a pong.
C17_MissingPongDisconnects ==
  connected => missedIntervals <= 2

\* C18: since the last channel establishment at most 5 reconnect attempts were
\* scheduled, the k-th with a delay of 1000 * 2^(k-1) ms; the attempt counter
\* equals their number (so it is 0 after an establishment); connection_failed
\* is emitted only after all five attempts were scheduled and have run, with
\* nothing left scheduled.
C18_ReconnectBackoff ==
  /\ Len(scheduledDelays) <= 5
  /\ \A k \in DOMAIN scheduledDelays : scheduledDelays[k] = 1000 * (2 ^ (k - 1))
  /\ reconnectAttempts = Len(scheduledDelays)
  /\ connectionFailed => (Len(scheduledDelays) = 5 /\ reconnectTimers = << >>)

\* C18 witness: five attempts (1, 2, 4, 8, 16 s) were scheduled and have
\* failed, and connection_failed was emitted.
C18_Witness ==
  /\ connectionFailed
  /\ scheduledDelays = << 1000, 2000, 4000, 8000, 16000 >>

\* C19: when the channel is lost while the session is connected (the channel
\* emits close, or an outbound send fails), the session is marked for
\* reconnect: handleConnectionDrop is entered.
C19_LossMarksReconnect ==
  (lastLoss.seen /\ lastLoss.wasConnected) => lastLoss.reconnect

\* C20: after close() has completed no keepalive ping is sent, no reconnect
\* attempt scheduled earlier runs, and connected stays false.
C20_NothingAfterClose ==
  closeState = "closed" =>
    /\ ~connected
    /\ ~afterClose.ping
    /\ ~afterClose.reconnect

(***************************************************************************)
(* Claims about the proof of storage.                                      *)
(***************************************************************************)
\* C21: a storage_proof is judged valid only if its content matches the
\* challenger's local metadata of the backup: its entries are the local
\* hashes of exactly the challenged indices.
C21_ValidOnlyIfMatches ==
  (lastProof.seen /\ lastProof.judgedValid) => lastProof.contentMatches

\* C22: the proof that a custodian holding the backup intact builds for a
\* random-blocks challenge of sendChallenge is judged valid, and the
\* custodian's successful-challenge count increases by exactly 1.
C22_IntactProofSucceeds ==
  (lastProof.seen /\ lastProof.intact) =>
    /\ lastProof.judgedValid
    /\ lastProof.successAfter = lastProof.successBefore + 1

\* C23: every challenge sent has, once its expiry time has passed, a result
\* in the peer's history (success, or failure for an invalid proof, an error
\* response or a timeout).
C23_EveryChallengeResolved ==
  \A id \in 1 .. nextChallenge :
    id \notin challengeTimers =>
      \E i \in DOMAIN challengeHistory : challengeHistory[i].challengeId = id

\* C24: once the 'connect' handler of a session has run, this side has
\* sent its storage commitment on the channel; and a storage_commitment
\* received is stored only after verifyCommitment accepted it.
C24_CommitmentExchanged ==
  /\ (connected /\ channel = "open" /\ ~connectAwaiting /\ pingInterval) =>
       "storage_commitment" \in outbox
  /\ \A commitment \in peerCommitments :
       /\ commitment.signatureValid /\ commitment.keyMatches
       /\ ~commitment.expired
       /\ commitment.storageOffered >= 1 /\ commitment.storageOffered <= 1048576

(***************************************************************************)
(* Claims about the reputation engine.                                     *)
(***************************************************************************)
RecordKinds == {"connection", "verification", "transfer", "uptime"}

\* the score of section 4.5 from the counters of a record
FormulaScore(r) ==
  LET recent == Last(r.uptimeHistory, 50)
      uptime == IF recent = << >> THEN Rat(1, 1)
                ELSE Rat(Cardinality({ i \in DOMAIN recent : recent[i] }), Len(recent))
      avg == r.averageResponseTime
      response == IF RatLess(Rat(30000, 1), avg) THEN Rat(0, 1)
                  ELSE OneMinus(Rat(avg[1], avg[2] * 30000))
      verificationScore ==
                IF r.totalChallenges = 0 THEN Rat(1, 2)
                ELSE Rat(r.successfulChallenges, r.totalChallenges)
      integrity == IF r.totalFilesTransferred = 0 THEN Rat(1, 1)
                   ELSE OneMinus(Rat(r.corruptedFiles, r.totalFilesTransferred))
  IN RatAdd(RatAdd(RatMul(Rat(3, 10), uptime), RatMul(Rat(2, 10), response)),
            RatAdd(RatMul(Rat(3, 10), verificationScore),
                   RatMul(Rat(2, 10), integrity)))

TrustBand(score) ==
  IF ~RatLess(score, Rat(8, 10)) THEN "trusted"
  ELSE IF ~RatLess(score, Rat(6, 10)) THEN "acceptable"
  ELSE IF ~RatLess(score, Rat(4, 10)) THEN "suspicious"
  ELSE "untrusted"

\* C25: after connection, verification, file-transfer and uptime events only,
\* the overallScore of a peer that is not blacklisted equals 0.3 uptime-score
\* + 0.2 response-time-score + 0.3 verification-score + 0.2 integrity-score of
\* its final counters, and its trustLevel is the band of that score.
C25_ScoreIsFormula ==
  \A p \in DOMAIN reputation :
    (repLog # {} /\ repLog \subseteq RecordKinds /\ ~reputation[p].isBlacklisted) =>
      /\ reputation[p].overallScore = FormulaScore(reputation[p])
      /\ reputation[p].trustLevel = TrustBand(FormulaScore(reputation[p]))

\* C26: a peer whose isBlacklisted flag is set has trustLevel blacklisted and
\* overallScore 0, whatever was recorded or imported after the blacklisting.
C26_BlacklistedForced ==
  \A p \in DOMAIN reputation :
    reputation[p].isBlacklisted =>
      /\ reputation[p].trustLevel = "blacklisted"
      /\ reputation[p].overallScore = Rat(0, 1)

\* C27: isPeerAcceptable(peer, min) answers not acceptable exactly when the
\* peer is blacklisted or its overallScore is below min, for every given min;
\* with min omitted the threshold is 0.6.
C27_AcceptableIff ==
  lastQuery.seen =>
    LET min == IF lastQuery.minScore = NoMin THEN Rat(6, 10) ELSE lastQuery.minScore
    IN lastQuery.acceptable <=>
         ~(lastQuery.isBlacklisted \/ RatLess(lastQuery.overallScore, min))

\* C28: for every peer, after any recordConnection and recordVerification
\* events and merge-imports of records within the bound,
\* successfulConnections <= totalConnections and
\* successfulChallenges <= totalChallenges.
C28_SuccessWithinTotal ==
  \A p \in DOMAIN reputation :
    /\ reputation[p].successfulConnections <= reputation[p].totalConnections
    /\ reputation[p].successfulChallenges <= reputation[p].totalChallenges

\* C28 witness: a record with recorded connections and verifications of its
\* own into which an imported record was merged.
C28_Witness ==
  /\ {"connection", "verification", "import"} \subseteq repLog
  /\ RepPeer \in DOMAIN reputation
  /\ reputation[RepPeer].successfulChallenges >= 2
  /\ reputation[RepPeer].successfulConnections >= 1
  /\ reputation[RepPeer].totalConnections >= 2

(***************************************************************************)
(* Claims about identity verification.                                     *)
(***************************************************************************)
\* C29: verifyPeerIdHash returns valid only if the peer-id-hash equals the
\* truncated SHA-256 of the embedded public key, the signature verifies under
\* that key, and the identity's timestamp is at most one hour older than the
\* verification time.
C29_ValidIdentity ==
  (lastIdentity.seen /\ lastIdentity.valid) =>
    LET id == lastIdentity.identity
    IN /\ id.peerIdHash = Sha256(<< id.publicKey >>)
       /\ id.signature.key = id.publicKey /\ id.signature.message = id.peerIdHash
       /\ id.timestamp.present
       /\ lastIdentity.at - id.timestamp.value <= 3600000

\* C40: after unblacklistPeer(p) returns, p's isBlacklisted flag is false
\* (so isPeerAcceptable no longer rejects p for being blacklisted), for every
\* set of counters p may have.
C40_UnblacklistClearsFlag ==
  [][UnblacklistPeer => ~reputation'[RepPeer].isBlacklisted]_vars

(***************************************************************************)
(* Claims about resuming and retrying.                                     *)
(***************************************************************************)
\* C30: no chunk of a backup is transmitted more than maxRetries (3) times in
\* total, and no send, resume or retry call sends a chunk whose persisted
\* attempt count had already reached the cap when the call began.
C30_AttemptCap ==
  /\ \A i \in ChunkIndices : transmitted[i] <= maxRetries
  /\ \A i \in lastSend.sent : lastSend.attemptsBefore[i] < maxRetries

(***************************************************************************)
(* Claims about the encrypted store.                                       *)
(***************************************************************************)
\* C31: no read of a table with sensitive fields hands ciphertext to the
\* caller: a read either fails with an encryption error or returns records
\* none of whose fields holds ciphertext.
C31_NoCiphertextRead ==
  \/ lastRead.failed
  \/ \A row \in lastRead.rows : \A f \in DOMAIN row : ~IsCiphertext(row[f])

(***************************************************************************)
(* Claims about undecodable frames.                                        *)
(***************************************************************************)
\* C32: a malformed inbound frame is dropped without any other effect: once
\* it has been handled no handler has run, the limiter's accounting is as it
\* was, and the session is still connected over an open channel.
C32_MalformedDropped ==
  (lastData.seen /\ lastData.type = "malformed")
    => /\ lastData.routed = "dropped"
       /\ ~lastData.mutated
       /\ connected
       /\ channel = "open"

(***************************************************************************)
(* Claims about concurrent proofs and timers.                              *)
(***************************************************************************)
ResultsOf(id) ==
  Cardinality({ i \in DOMAIN challengeHistory : challengeHistory[i].challengeId = id })

\* verification_result events handled so far for the peer
ResultsEmitted ==
  IF RepPeer \in DOMAIN reputation THEN reputation[RepPeer].totalChallenges ELSE 0

EarlierResolved ==
  IF \E i \in DOMAIN challengeHistory : challengeHistory[i].challengeId = 0
  THEN challengeHistoryCap - 1 ELSE 0

\* C33: whatever the order of proofs (repeated or late ones included) and
\* expiry timers, each challenge id has at most one entry in the peer's
\* history and at most one verification_result, and the history never holds
\* more than 100 entries.
C33_OneResultPerChallenge ==
  /\ \A id \in 1 .. nextChallenge : ResultsOf(id) <= 1
  /\ ResultsEmitted <= EarlierResolved + nextChallenge
  /\ Len(challengeHistory) <= challengeHistoryCap

\* both challenges are resolved in a full history, and a proof of one of them
\* is still on its way to handleProof
C33_Witness ==
  /\ Len(challengeHistory) = challengeHistoryCap
  /\ \A id \in 1 .. MaxChallenges : ResultsOf(id) = 1
  /\ toChallenger # << >>
  /\ Head(toChallenger).challengeId \in 1 .. MaxChallenges

\* C34: when the sender has processed chunk_ack(received) for a chunk it
\* transmitted for the backup (by the first send, a resumed send or a retry)
\* the chunk's persisted state is completed; when it has processed
\* chunk_ack(error) the state is failed, with the reported error.
C34_AckSetsChunkState ==
  lastAck.seen =>
    /\ lastAck.status = "received" => lastAck.stateAfter = "completed"
    /\ lastAck.status = "error" =>
         lastAck.stateAfter = "failed" /\ lastAck.errorAfter = "error"

(***************************************************************************)
(* Claims about shared secrets.                                            *)
(***************************************************************************)
\* C35: in a session that has completed the handshake, when the pipeline
\* encrypts or decrypts a chunk for the session's current peer id, a shared
\* secret is cached under that id.
C35_SecretForCurrentPeer ==
  (lastCrypt.seen /\ lastCrypt.handshaken) => lastCrypt.found

(***************************************************************************)
(* Claims about bans.                                                      *)
(***************************************************************************)
\* C36: a peer stays banned until the expiry of its most recent ban: at
\* every instant before the end of the latest banPeer call's duration,
\* isBanned answers true for the peer.
C36_BannedUntilLatestExpiry ==
  \A peerId \in DOMAIN banLog : now < banLog[peerId] => isBanned(peerId, now)

(***************************************************************************)
(* Claims about the limiter key of a channel.                              *)
(***************************************************************************)
\* the ids the dispatcher may use as limiter key during a session
ChannelSenders == {UnknownPeer, SignalPeer, IdentityHash}

RECURSIVE AdmittedInWindow(_)
AdmittedInWindow(senders) ==
  IF senders = {} THEN 0
  ELSE LET p == CHOOSE x \in senders : TRUE
       IN CountSince(GetList(requests, PeerKey(p)), now, windowMs)
          + AdmittedInWindow(senders \ {p})

\* C37: the messages of one channel are all counted against one limiter key:
\* the number of messages admitted on the channel within the last 60 s never
\* exceeds the coarse limit, whatever peer_identity messages the peer sends.
C37_ChannelWindowLimit == AdmittedInWindow(ChannelSenders) <= maxRequests

(***************************************************************************)
(* Claims about the signaling broker.                                      *)
(***************************************************************************)
\* C38: a hosted slot is matched to at most one requester: since the slot
\* was hosted, peer-matched has been sent to at most one requester for it.
C38_OneRequesterPerSlot == Len(peerMatched) <= 1

(***************************************************************************)
(* Claims about the identity handshake.                                    *)
(***************************************************************************)
\* C39: between two honest peers the identity sent in the handshake is
\* accepted by the receiver whenever the handshake takes place, however
\* long after the sender's initialization.
C39_HonestIdentityAccepted == lastHandshake.seen => lastHandshake.verified

====
